---- MODULE Spec2Model ----
(***************************************************************************)
(* eGreetz: the audio playback scheduler (utils/audioUtils), the live      *)
(* session audio of GreetingForm and the audio/video synchronisation of    *)
(* GreetingCard, as state machines.  Times are in milliseconds; the        *)
(* AudioContext's currentTime is the wall clock minus the instant at which *)
(* the context was created.                                                *)
(***************************************************************************)
EXTENDS Integers, Sequences, FiniteSets, TLC

\* ------------------------------------------------------------------ bounds
MaxTime == 12000
Step == 4000
MaxNodes == 3
MaxRequests == 2
MaxPlays == 2
GreetingAudioDuration == 3000
Durations == {2000, 3000}
MaxBytes == 6        \* longest byte sequence given to the codec
MaxSamples == 2      \* longest sample frame given to createAudioBlob
SubSteps == 4        \* a sample is a multiple of 1 / (SubSteps * 32768)
MaxRecordings == 2   \* clicks on 'Start recording'
MaxTicks == 3        \* 'audioprocess' events
MaxFrames == 3       \* frames given to createAudioBlob one after the other
MaxBatch == 2        \* messages of the live session handled in one task
MaxMessage == 1      \* characters of the form's message
MaxRuns == 2         \* calls of generateGreeting
MaxPolls == 1        \* polls of one video operation that find it running
MaxStore == 2        \* greetings in the store when the page loads
MaxDeletes == 2      \* handleDeleteGreeting calls in flight

\* --------------------------------------------------------------- constants
RENDER_DELAY == 50
LOAD_TIMEOUT == 10000
PCM_SCALE == 32768
AUDIO_SAMPLE_RATE == 16000
OUTPUT_AUDIO_SAMPLE_RATE == 24000

\* ------------------------------------------------------------------ state
VARIABLES
  now,                 \* wall clock, ms
  outputAudioContext,  \* -1: null; otherwise the wall-clock instant of creation
  nextStartTime,       \* audioUtils: the scheduler cursor (ms of context time)
  audioSources,        \* audioUtils: Set<AudioBufferSourceNode>, as node ids
  nodes,               \* every AudioBufferSourceNode started on the device
  liveSessionRef,      \* GreetingForm ref: 0 for null, else the session whose
                       \* connection promise it holds
  liveNextStartTime,   \* GreetingForm.startRecording: the local cursor of
                       \* each call that opened a session
  recorder,            \* GreetingForm: the state, refs and devices of recording
  player,              \* SharedGreetingPlayer: its state, refs and <video>
  app,                 \* App and GreetingForm.generateGreeting: the list,
                       \* the store and the runs of generateGreeting
  cardMounted,         \* GreetingCard: the card is in the page
  isPlayingAudio,      \* GreetingCard state
  showVideoPlayer,     \* GreetingCard state
  videoPlaybackLoading,\* GreetingCard state
  videoError,          \* GreetingCard state: TRUE when a message is set
  videoLoadTimeoutRef, \* GreetingCard ref: 0 for null, else the request whose
                       \* timeout timer it holds
  videoRef,            \* GreetingCard ref: 0 for null, else the mounted element
  elements,            \* every <video> element the card has mounted
  requests,            \* every handlePlayVideo call, with its closure's timers
  audioUrl,            \* GreetingCard prop greeting.audioUrl: the kind of data
                       \* the stored data URL holds
  codec                \* one pass of data through the codec functions

vars == <<now, outputAudioContext, nextStartTime, audioSources, nodes,
          liveSessionRef, liveNextStartTime, recorder, player, cardMounted,
          app,
          isPlayingAudio, showVideoPlayer,
          videoPlaybackLoading, videoError, videoLoadTimeoutRef, videoRef,
          elements, requests, audioUrl, codec>>

Max(a, b) == IF a >= b THEN a ELSE b

\* The program state as one value, so that a handler can apply several calls
\* in sequence.
World ==
  [outputAudioContext |-> outputAudioContext, nextStartTime |-> nextStartTime,
   audioSources |-> audioSources, nodes |-> nodes,
   liveSessionRef |-> liveSessionRef, liveNextStartTime |-> liveNextStartTime,
   recorder |-> recorder, player |-> player, cardMounted |-> cardMounted,
   app |-> app,
   isPlayingAudio |-> isPlayingAudio, showVideoPlayer |-> showVideoPlayer,
   videoPlaybackLoading |-> videoPlaybackLoading, videoError |-> videoError,
   videoLoadTimeoutRef |-> videoLoadTimeoutRef, videoRef |-> videoRef,
   elements |-> elements, requests |-> requests, audioUrl |-> audioUrl,
   codec |-> codec]

Set(w) ==
  /\ outputAudioContext' = w.outputAudioContext
  /\ nextStartTime' = w.nextStartTime
  /\ audioSources' = w.audioSources
  /\ nodes' = w.nodes
  /\ liveSessionRef' = w.liveSessionRef
  /\ liveNextStartTime' = w.liveNextStartTime
  /\ recorder' = w.recorder
  /\ player' = w.player
  /\ cardMounted' = w.cardMounted
  /\ app' = w.app
  /\ isPlayingAudio' = w.isPlayingAudio
  /\ showVideoPlayer' = w.showVideoPlayer
  /\ videoPlaybackLoading' = w.videoPlaybackLoading
  /\ videoError' = w.videoError
  /\ videoLoadTimeoutRef' = w.videoLoadTimeoutRef
  /\ videoRef' = w.videoRef
  /\ elements' = w.elements
  /\ requests' = w.requests
  /\ audioUrl' = w.audioUrl
  /\ codec' = w.codec

\* ------------------------------------------------------------- audioUtils
\* getOutputAudioContext() that creates a context at every call
getOutputAudioContextFresh(w) == [w EXCEPT !.outputAudioContext = now]

\* getOutputAudioContext(): creates the context on first use, never replaces it.
getOutputAudioContext(w) ==
  IF w.outputAudioContext = -1 THEN [w EXCEPT !.outputAudioContext = now] ELSE w

\* ctx.currentTime of a created context
currentTime(w) == now - w.outputAudioContext

NewNode(via, startAt, duration, enqueuedAt, cursorBefore) ==
  [via |-> via, startAt |-> startAt, duration |-> duration,
   enqueuedAt |-> enqueuedAt, cursorBefore |-> cursorBefore,
   stopCalled |-> FALSE, halted |-> FALSE, endedFired |-> FALSE]

EndOf(n) == n.startAt + n.duration

\* the node's audio is over: it was halted or its region has passed
Finished(w, h) ==
  \/ w.nodes[h].halted
  \/ (w.outputAudioContext # -1 /\ currentTime(w) >= EndOf(w.nodes[h]))

\* scheduled or playing on the device
Audible(w, h) == ~Finished(w, h)

\* playAudioBuffer with the cursor ignored: every buffer starts at once
playAudioBufferNoCursor(w0, d) ==
  LET w == getOutputAudioContext(w0)
      startAt == currentTime(w)
      h == Len(w.nodes) + 1
  IN [w EXCEPT
        !.nodes = Append(@, NewNode("playAudioBuffer", startAt, d,
                                    currentTime(w), w.nextStartTime)),
        !.nextStartTime = startAt + d,
        !.audioSources = @ \cup {h}]

\* playAudioBuffer that does not advance the cursor by the duration
playAudioBufferNoAdvance(w0, d) ==
  LET w == getOutputAudioContext(w0)
      startAt == Max(w.nextStartTime, currentTime(w))
      h == Len(w.nodes) + 1
  IN [w EXCEPT
        !.nodes = Append(@, NewNode("playAudioBuffer", startAt, d,
                                    currentTime(w), w.nextStartTime)),
        !.nextStartTime = startAt,
        !.audioSources = @ \cup {h}]

\* playAudioBuffer(audioBuffer): d is audioBuffer.duration
playAudioBuffer(w0, d) ==
  LET w == getOutputAudioContext(w0)
      startAt == Max(w.nextStartTime, currentTime(w))
      h == Len(w.nodes) + 1
  IN [w EXCEPT
        !.nodes = Append(@, NewNode("playAudioBuffer", startAt, d,
                                    currentTime(w), w.nextStartTime)),
        !.nextStartTime = startAt + d,
        !.audioSources = @ \cup {h}]

\* source.stop() on a node: a throwing stop() leaves the node as it was
StopNode(n, throws) ==
  IF throws THEN [n EXCEPT !.stopCalled = TRUE]
  ELSE [n EXCEPT !.stopCalled = TRUE, !.halted = TRUE]

\* stopAllAudio without the try/catch: the first throwing stop() ends the
\* loop, and clear() is not reached
stopAllAudioNoCatch(w, throwing) ==
  IF w.audioSources \cap throwing = {} THEN
    [w EXCEPT
       !.nodes = [h \in DOMAIN w.nodes |->
                    IF h \in w.audioSources THEN StopNode(w.nodes[h], FALSE)
                    ELSE w.nodes[h]],
       !.audioSources = {}]
  ELSE
    LET first == CHOOSE h \in w.audioSources \cap throwing :
                   \A g \in w.audioSources \cap throwing : h <= g
    IN [w EXCEPT
          !.nodes = [h \in DOMAIN w.nodes |->
                       IF h \in w.audioSources /\ h <= first
                       THEN StopNode(w.nodes[h], h = first)
                       ELSE w.nodes[h]]]

\* stopAllAudio that also resets the cursor
stopAllAudioResetCursor(w, throwing) ==
  [w EXCEPT
     !.nodes = [h \in DOMAIN w.nodes |->
                  IF h \in w.audioSources
                  THEN StopNode(w.nodes[h], h \in throwing)
                  ELSE w.nodes[h]],
     !.audioSources = {},
     !.nextStartTime = 0]

\* stopAllAudio that also closes the output device
stopAllAudioClosesContext(w, throwing) ==
  [w EXCEPT
     !.nodes = [h \in DOMAIN w.nodes |->
                  IF h \in w.audioSources
                  THEN StopNode(w.nodes[h], h \in throwing)
                  ELSE w.nodes[h]],
     !.audioSources = {},
     !.outputAudioContext = -1]

\* stopAllAudio(): throwing is the set of nodes whose stop() throws
stopAllAudio(w, throwing) ==
  [w EXCEPT
     !.nodes = [h \in DOMAIN w.nodes |->
                  IF h \in w.audioSources
                  THEN StopNode(w.nodes[h], h \in throwing)
                  ELSE w.nodes[h]],
     !.audioSources = {}]

\* The nodes whose stop() may throw: on some engines stop() on a node that
\* has already played to its end raises InvalidStateError.
MayThrow(w) ==
  {h \in w.audioSources : ~w.nodes[h].halted /\ Finished(w, h)}

\* the 'ended' listener of playAudioBuffer, leaving the handle in the set
endedListenerKeeps(w, h) == w

\* the 'ended' listener playAudioBuffer registers on its source
endedListener(w, h) == [w EXCEPT !.audioSources = @ \ {h}]

\* ------------------------------------------------------------------ codec
\* A base64 string is a sequence of digits 0..63 and of PAD for '='; a binary
\* string is a sequence of code units 0..255.  A sample is an integer n that
\* stands for n / SampleUnit; a sample of a decoded buffer is an int16 value
\* v that stands for v / PCM_SCALE.
PAD == 64
SampleUnit == SubSteps * PCM_SCALE

\* btoa(binary)
RECURSIVE btoa(_)
btoa(b) ==
  IF Len(b) = 0 THEN <<>>
  ELSE IF Len(b) = 1 THEN <<b[1] \div 4, (b[1] % 4) * 16, PAD, PAD>>
  ELSE IF Len(b) = 2
    THEN <<b[1] \div 4, (b[1] % 4) * 16 + b[2] \div 16, (b[2] % 16) * 4, PAD>>
  ELSE <<b[1] \div 4, (b[1] % 4) * 16 + b[2] \div 16,
         (b[2] % 16) * 4 + b[3] \div 64, b[3] % 64>>
       \o btoa(SubSeq(b, 4, Len(b)))

\* encode(bytes): String.fromCharCode of each byte, then btoa
encode(bytes) == btoa([i \in 1..Len(bytes) |-> bytes[i]])

\* atob, the digits after the padding is removed
RECURSIVE atobDigits(_)
atobDigits(d) ==
  IF Len(d) <= 1 THEN <<>>
  ELSE IF Len(d) = 2 THEN <<d[1] * 4 + d[2] \div 16>>
  ELSE IF Len(d) = 3
    THEN <<d[1] * 4 + d[2] \div 16, (d[2] % 16) * 16 + d[3] \div 4>>
  ELSE <<d[1] * 4 + d[2] \div 16, (d[2] % 16) * 16 + d[3] \div 4,
         (d[3] % 4) * 64 + d[4]>>
       \o atobDigits(SubSeq(d, 5, Len(d)))

\* atob that loses the last, padded group
atobDropsPadded(s) ==
  IF Len(s) % 4 = 0 /\ Len(s) > 0 /\ s[Len(s)] = PAD
  THEN atobDigits(SubSeq(s, 1, Len(s) - 4))
  ELSE atobDigits(s)

\* atob(base64): one or two '=' at the end of a string whose length is a
\* multiple of 4 are removed, then every 4 digits give 3 code units
atob(s) ==
  IF Len(s) % 4 = 0 /\ Len(s) > 0 /\ s[Len(s)] = PAD
  THEN IF s[Len(s) - 1] = PAD THEN atobDigits(SubSeq(s, 1, Len(s) - 2))
       ELSE atobDigits(SubSeq(s, 1, Len(s) - 1))
  ELSE atobDigits(s)

\* decode(base64): atob, then charCodeAt of each code unit into a Uint8Array
decode(base64) ==
  LET binaryString == atob(base64)
  IN [i \in 1..Len(binaryString) |-> binaryString[i] % 256]

\* The conversion of a number to an element of an Int16Array: the fraction is
\* dropped towards zero and the integer is taken modulo 2^16 into
\* [-2^15, 2^15).  n stands for the number n / SubSteps.
ToInt16(n) ==
  LET int == IF n >= 0 THEN n \div SubSteps ELSE -((-n) \div SubSteps)
      int16bit == int % (2 * PCM_SCALE)
  IN IF int16bit >= PCM_SCALE THEN int16bit - 2 * PCM_SCALE ELSE int16bit

\* the bytes of the values written high byte first
Int16BytesHighFirst(int16) ==
  [j \in 1..(2 * Len(int16)) |->
     LET u == int16[(j + 1) \div 2] % (2 * PCM_SCALE)
     IN IF j % 2 = 1 THEN u \div 256 ELSE u % 256]

\* new Uint8Array(int16.buffer): two bytes per value, the low byte first
Int16Bytes(int16) ==
  [j \in 1..(2 * Len(int16)) |->
     LET u == int16[(j + 1) \div 2] % (2 * PCM_SCALE)
     IN IF j % 2 = 1 THEN u % 256 ELSE u \div 256]

\* new Int16Array(data.buffer), for an even number of bytes
BytesInt16(data) ==
  [j \in 1..(Len(data) \div 2) |->
     LET u == data[2 * j - 1] + 256 * data[2 * j]
     IN IF u >= PCM_SCALE THEN u - 2 * PCM_SCALE ELSE u]

\* createAudioBlob with saturation
createAudioBlobClamped(data, sampleRate) ==
  LET Clamped(n) ==
        LET int == IF n >= 0 THEN n \div SubSteps ELSE -((-n) \div SubSteps)
        IN IF int >= PCM_SCALE THEN PCM_SCALE - 1
           ELSE IF int < -PCM_SCALE THEN -PCM_SCALE ELSE int
  IN [data |-> encode(Int16Bytes([i \in 1..Len(data) |-> Clamped(data[i])])),
      mimeType |-> <<"audio/pcm;rate=", sampleRate>>]

\* createAudioBlob(data, sampleRate); int16[i] = data[i] * 32768, where
\* data[i] * 32768 is the sample's integer over SubSteps
createAudioBlob(data, sampleRate) ==
  [data |-> encode(Int16Bytes([i \in 1..Len(data) |-> ToInt16(data[i])])),
   mimeType |-> <<"audio/pcm;rate=", sampleRate>>]

NoBuffer ==
  [error |-> "", numberOfChannels |-> 0, length |-> 0, channelData |-> <<>>]

\* decodeAudioData(data, ctx, sampleRate, numChannels).  new Int16Array throws
\* a RangeError on an odd byte length.  frameCount is the quotient, integer or
\* not; createBuffer takes its integer part as the length and throws a
\* NotSupportedError when that is 0; the loop runs while i < frameCount, and
\* a write at an index past the length is dropped by the Float32Array.
decodeAudioData(data, numChannels) ==
  IF Len(data) % 2 = 1 THEN [NoBuffer EXCEPT !.error = "RangeError"]
  ELSE LET dataInt16 == BytesInt16(data)
           length == Len(dataInt16) \div numChannels
       IN IF length = 0 THEN [NoBuffer EXCEPT !.error = "NotSupportedError"]
          ELSE [error |-> "", numberOfChannels |-> numChannels,
                length |-> length,
                channelData |->
                  [c \in 1..numChannels |->
                     [i \in 1..length |-> dataInt16[(i - 1) * numChannels + c]]]]

\* ------------------------------------------------------------------ timers
\* the instant at which the deferred setup of a request runs
DeferDeadline(r) == r.at + RENDER_DELAY

\* the timeout measured from the playback request instead of from its arming
TimeoutDeadlineFromRequest(r) == r.at + LOAD_TIMEOUT

\* the instant at which the ready-timeout of a request fires
TimeoutDeadline(r) == r.armedAt + LOAD_TIMEOUT

PendingDeadlines(w) ==
  {DeferDeadline(w.requests[k]) :
     k \in {j \in DOMAIN w.requests : w.requests[j].deferred = "pending"}}
  \cup
  {TimeoutDeadline(w.requests[k]) :
     k \in {j \in DOMAIN w.requests : w.requests[j].timeout = "pending"}}

SetMin(S) == CHOOSE x \in S : \A y \in S : x <= y

\* ---------------------------------------------------------------- actions
\* GreetingForm as mounted: nothing is recording.  rendered holds the state
\* values the committed render has closed over (stopRecording's audioStream,
\* the button's isRecording); getUserMedia holds, for each startRecording
\* call still awaiting the microphone, the audioStream its closures saw;
\* handler names the handler of the form that ran last.
RecorderIdle ==
  [isRecording |-> FALSE, audioStream |-> 0, audioChunks |-> <<>>,
   error |-> FALSE, inputAudioContextRef |-> FALSE, scriptProcessorRef |-> 0,
   rendered |-> [isRecording |-> FALSE, audioStream |-> 0],
   getUserMedia |-> <<>>, calls |-> 0, streams |-> <<>>, processors |-> <<>>,
   sessions |-> <<>>, ticks |-> <<>>, handler |-> ""]

\* SharedGreetingPlayer as mounted: the greeting is being fetched.  effectDeps
\* holds the dependencies the autoplay effect saw when it last ran.
PlayerLoading ==
  [greeting |-> FALSE, isPlaying |-> FALSE, autoplayAttempted |-> FALSE,
   error |-> FALSE, videoPlaybackLoading |-> FALSE, videoLoadTimeoutRef |-> 0,
   videoRef |-> 0, elements |-> <<>>, requests |-> <<>>,
   effectDeps |-> <<FALSE, FALSE, FALSE>>]

InitState ==
  /\ now = 0
  /\ outputAudioContext = -1
  /\ nextStartTime = 0
  /\ audioSources = {}
  /\ nodes = <<>>
  /\ liveSessionRef = 0
  /\ liveNextStartTime = <<>>
  /\ recorder = RecorderIdle
  /\ player = PlayerLoading
  /\ cardMounted = TRUE
  /\ isPlayingAudio = FALSE
  /\ showVideoPlayer = FALSE
  /\ videoPlaybackLoading = FALSE
  /\ videoError = FALSE
  /\ videoLoadTimeoutRef = 0
  /\ videoRef = 0
  /\ elements = <<>>
  /\ requests = <<>>

\* no data is in the codec
CodecIdle ==
  [stage |-> "idle", samples |-> <<>>, bytesIn |-> <<>>, numChannels |-> 1,
   data |-> <<>>, mimeType |-> <<>>, bytes |-> <<>>, buffer |-> NoBuffer,
   frames |-> 0, blobs |-> 0]

\* GreetingForm as mounted, for generateGreeting: the form is empty and idle.
\* message is the text of the textarea, a sequence of characters; error is ""
\* for null; runs holds every call of generateGreeting with what its closure
\* saw and the point it has reached.
FormIdle ==
  [message |-> <<>>, imageFile |-> FALSE, loadingAudio |-> FALSE,
   loadingVideo |-> FALSE, videoGenerationMessage |-> "", error |-> "",
   runs |-> <<>>]

\* App before its effects have run, on a page whose URL carries the
\* greetingId url (0: none), with the documents docs in the store.  clock
\* counts the documents ever written; fetches holds every getGreetings call;
\* deleting holds the ids of the handleDeleteGreeting calls in flight; created
\* holds every greeting handed to onGreetingCreated; last is the delete that
\* settled in the last step, if one did.  The state apiKeyModalOpen, which
\* only the API key dialog reads, is left out.
AppStart(url, docs) ==
  [url |-> url, mounted |-> FALSE, sharedGreetingId |-> 0, greetings |-> <<>>,
   loading |-> TRUE, store |-> docs,
   clock |-> Cardinality(docs), fetches |-> <<>>, deleting |-> <<>>,
   created |-> <<>>, last |-> [op |-> "", id |-> 0, ok |-> TRUE],
   form |-> FormIdle]

\* the stored audio is 16-bit PCM
Init == InitState /\ audioUrl = "pcm16" /\ codec = CodecIdle
        /\ app = AppStart(0, {})

\* some caller enqueues a decoded buffer
PlayBuffer(d) ==
  /\ Len(nodes) < MaxNodes
  /\ Set(playAudioBuffer(World, d))
  /\ UNCHANGED now

\* some caller stops all audio
StopAll(throwing) ==
  /\ Set(stopAllAudio(World, throwing))
  /\ UNCHANGED now

\* the device dispatches 'ended' for a node that played to its end or was
\* stopped; only the listener of a node still in audioSources has an effect
SourceEnded(h) ==
  /\ h \in audioSources
  /\ Finished(World, h)
  /\ ~nodes[h].endedFired
  /\ LET w == [World EXCEPT !.nodes[h].endedFired = TRUE]
     IN Set(endedListener(w, h))
  /\ UNCHANGED now

\* the wall-clock instants at which a scheduled or playing node ends
NodeEnds(w) ==
  {w.outputAudioContext + EndOf(w.nodes[h]) :
     h \in {g \in DOMAIN w.nodes : Audible(w, g)}}

\* time passes: to the next instant at which a timer is due or a node ends,
\* or by Step when there is none; a timer that is due fires before time passes
Advance ==
  /\ now < MaxTime
  /\ \A t \in PendingDeadlines(World) : t > now
  /\ now' = IF PendingDeadlines(World) \cup NodeEnds(World) = {} THEN now + Step
            ELSE SetMin(PendingDeadlines(World) \cup NodeEnds(World))
  /\ UNCHANGED <<outputAudioContext, nextStartTime, audioSources, nodes,
                 liveSessionRef, liveNextStartTime, recorder, player, cardMounted,
                 app,
                 isPlayingAudio, showVideoPlayer, videoPlaybackLoading,
                 videoError,
                 videoLoadTimeoutRef, videoRef, elements, requests, audioUrl,
                 codec>>

\* ------------------------------------------------------------ GreetingForm
\* a callback given to the then() of the connection promise
SendFrame(f, p) == [kind |-> "send", frame |-> f, processor |-> p]
CloseSession == [kind |-> "close"]

\* the session object runs one callback: sendRealtimeInput(frame) delivers
\* the frame unless the session is closed; close() closes it
RunCallback(session, cb, content) ==
  IF cb.kind = "close" THEN [session EXCEPT !.closed = TRUE]
  ELSE IF session.closed THEN session
  ELSE [session EXCEPT !.sent = Append(@, content)]

\* liveSessionRef.current.then(cb): on a pending promise the callback waits;
\* on a fulfilled one it runs in the microtask that follows the caller, when
\* the frame it reads is still the caller's; on a rejected one it never runs
then(w, s, cb) ==
  LET state == w.recorder.sessions[s].state
  IN IF state = "pending"
     THEN [w EXCEPT !.recorder.sessions[s].thens = Append(@, cb)]
     ELSE IF state = "open"
     THEN [w EXCEPT !.recorder.sessions[s] =
                      RunCallback(@, cb, IF cb.kind = "send" THEN cb.frame
                                         ELSE 0)]
     ELSE w

\* startRecording, up to the await: setError(null), stopAllAudio(), and the
\* request for the microphone
startRecording(w, throwing) ==
  LET w1 == [w EXCEPT !.recorder.error = FALSE]
      w2 == stopAllAudio(w1, throwing)
  IN [w2 EXCEPT
        !.recorder.getUserMedia =
            Append(@, [stopRecording |-> w.recorder.rendered.audioStream]),
        !.recorder.calls = @ + 1]

\* startRecording, the catch block
startRecordingCatchSilent(w) ==
  [w EXCEPT !.recorder.isRecording = FALSE]

startRecordingCatch(w) ==
  [w EXCEPT !.recorder.error = TRUE, !.recorder.isRecording = FALSE]

\* startRecording, after the await when the microphone was granted: the state
\* updates, the input context, the processor with its handler and its
\* connections, then getGenAIInstance(), which throws into the catch block
\* when aiThrows, the output context, the local cursor and the connection
startRecordingGranted(w, call, aiThrows) ==
  LET stream == Len(w.recorder.streams) + 1
      processor == Len(w.recorder.processors) + 1
      session == Len(w.recorder.sessions) + 1
      w1 == [w EXCEPT
               !.recorder.streams = Append(@, TRUE),
               !.recorder.audioStream = stream,
               !.recorder.isRecording = TRUE,
               !.recorder.audioChunks = <<>>,
               !.recorder.inputAudioContextRef = TRUE,
               !.recorder.processors =
                   Append(@, [stream |-> stream, connected |-> TRUE,
                              inputBuffer |-> 0]),
               !.recorder.scriptProcessorRef = processor]
  IN IF aiThrows THEN startRecordingCatch(w1)
     ELSE [getOutputAudioContext(w1) EXCEPT
             !.liveNextStartTime = Append(@, 0),
             !.recorder.sessions =
                 Append(@, [state |-> "pending", thens |-> <<>>,
                            closed |-> FALSE, sent |-> <<>>,
                            stopRecording |-> call.stopRecording]),
             !.liveSessionRef = session]

\* startRecording, after the await when the microphone was refused
startRecordingDenied(w) == startRecordingCatch(w)

\* scriptProcessor.onaudioprocess for processor p: the frame of this tick
\* is in the event's input buffer; a copy goes to audioChunks, and when
\* liveSessionRef holds a promise a callback that will convert and send the
\* buffer is given to its then().  A frame is named by the number of its tick.
onaudioprocess(w, p) ==
  LET f == Len(w.recorder.ticks) + 1
      w1 == [w EXCEPT
               !.recorder.ticks =
                   Append(@, [processor |-> p, ref |-> w.liveSessionRef]),
               !.recorder.processors[p].inputBuffer = f,
               !.recorder.audioChunks = Append(@, f)]
  IN IF w.liveSessionRef # 0 THEN then(w1, w.liveSessionRef, SendFrame(f, p))
     ELSE w1

\* stopRecording as created by a render that saw the given audioStream
stopRecording(w, audioStream) ==
  LET w1 == [w EXCEPT !.recorder.isRecording = FALSE]
      w2 == IF audioStream # 0
            THEN [w1 EXCEPT !.recorder.streams[audioStream] = FALSE,
                            !.recorder.audioStream = 0]
            ELSE w1
      p == w2.recorder.scriptProcessorRef
      w3 == IF w2.recorder.inputAudioContextRef /\ p # 0
            THEN [w2 EXCEPT !.recorder.processors[p].connected = FALSE,
                            !.recorder.scriptProcessorRef = 0]
            ELSE w2
  IN IF w3.liveSessionRef # 0
     THEN [then(w3, w3.liveSessionRef, CloseSession) EXCEPT
             !.liveSessionRef = 0]
     ELSE w3

\* React commits a render of the changed state: the button and the new
\* stopRecording see the current values, and when stopRecording changed
\* identity (its dependency audioStream changed) the cleanup of the effect
\* on [stopRecording] calls the previous stopRecording
commit(w) ==
  LET old == w.recorder.rendered
      w1 == [w EXCEPT !.recorder.rendered =
                        [isRecording |-> w.recorder.isRecording,
                         audioStream |-> w.recorder.audioStream]]
  IN IF w.recorder.audioStream # old.audioStream
     THEN stopRecording(w1, old.audioStream)
     ELSE w1

\* the callbacks waiting on a connection promise run in order once it is
\* fulfilled.  A waiting send callback reads the input buffer of its event
\* after the handler returned, where the buffer is no longer valid: it finds
\* its own frame, or (reused) the frame the processor wrote there last
RECURSIVE RunThens(_, _, _, _)
RunThens(session, thens, processors, reused) ==
  IF thens = <<>> THEN session
  ELSE LET cb == Head(thens)
           content == IF cb.kind = "close" THEN 0
                      ELSE IF reused THEN processors[cb.processor].inputBuffer
                      ELSE cb.frame
       IN RunThens(RunCallback(session, cb, content), Tail(thens), processors,
                   reused)

\* ai.live.connect(...) is fulfilled with the session
connectFulfilled(w, s, reused) ==
  [w EXCEPT !.recorder.sessions[s] =
              [RunThens(@, @.thens, w.recorder.processors, reused) EXCEPT
                 !.state = "open", !.thens = <<>>]]

\* ai.live.connect(...) is rejected: the callbacks given to then() are dropped
connectRejected(w, s) ==
  [w EXCEPT !.recorder.sessions[s].state = "rejected",
            !.recorder.sessions[s].thens = <<>>]

\* callbacks.onerror of session s, as created by the startRecording call that
\* opened it: setError, then the stopRecording that call's render had.  The
\* connection that reported the error is dead: a pending one never settles.
onerror(w, s) ==
  LET w1 == [w EXCEPT !.recorder.error = TRUE]
      w2 == stopRecording(w1, w.recorder.sessions[s].stopRecording)
  IN [w2 EXCEPT !.recorder.sessions[s].closed = TRUE,
                !.recorder.sessions[s].state =
                    IF @ = "pending" THEN "failed" ELSE @,
                !.recorder.sessions[s].thens = <<>>]

\* the handler h of the form has run and left w
Handled(w, h) == [w EXCEPT !.recorder.handler = h]

\* the user clicks 'Start recording', shown while the render has
\* isRecording false
StartRecording(throwing) ==
  /\ ~recorder.rendered.isRecording
  /\ recorder.calls < MaxRecordings
  /\ Set(Handled(startRecording(World, throwing), "startRecording"))
  /\ UNCHANGED now

\* getUserMedia resolves for the oldest waiting call
MicGranted(aiThrows) ==
  /\ recorder.getUserMedia # <<>>
  /\ LET w == [World EXCEPT !.recorder.getUserMedia = Tail(@)]
     IN Set(Handled(startRecordingGranted(w, Head(recorder.getUserMedia),
                                          aiThrows), "getUserMedia"))
  /\ UNCHANGED now

\* getUserMedia rejects for the oldest waiting call
MicDenied ==
  /\ recorder.getUserMedia # <<>>
  /\ Set(Handled(startRecordingDenied(
                   [World EXCEPT !.recorder.getUserMedia = Tail(@)]),
                 "getUserMedia"))
  /\ UNCHANGED now

\* React renders the pending state updates
Commit ==
  /\ recorder.rendered # [isRecording |-> recorder.isRecording,
                          audioStream |-> recorder.audioStream]
  /\ Set(Handled(commit(World), "commit"))
  /\ UNCHANGED now

\* the input context dispatches 'audioprocess' to a processor.  A processor
\* whose output was disconnected still has its input connected; whether it
\* keeps receiving events depends on the browser, so it may.
AudioProcess(p) ==
  /\ Len(recorder.ticks) < MaxTicks
  /\ Set(Handled(onaudioprocess(World, p), "onaudioprocess"))
  /\ UNCHANGED now

ConnectFulfilled(s, reused) ==
  /\ recorder.sessions[s].state = "pending"
  /\ Set(Handled(connectFulfilled(World, s, reused), "connect"))
  /\ UNCHANGED now

ConnectRejected(s) ==
  /\ recorder.sessions[s].state = "pending"
  /\ Set(Handled(connectRejected(World, s), "connect"))
  /\ UNCHANGED now

\* callbacks.onmessage after its await, without 'nextStartTime +=
\* audioBuffer.duration'
onmessageResumeNoAdvance(w, s, d) ==
  LET startAt == Max(w.liveNextStartTime[s], currentTime(w))
  IN [w EXCEPT
        !.nodes = Append(@, NewNode("onmessage", startAt, d, currentTime(w),
                                    w.liveNextStartTime[s]))]

\* callbacks.onmessage of session s after 'await decodeAudioData(...)', with
\* the decoded buffer of duration d: the local cursor is raised to the device
\* clock, the source is started there directly on the output context,
\* without being added to audioSources, and the cursor is advanced
onmessageResume(w, s, d) ==
  LET startAt == Max(w.liveNextStartTime[s], currentTime(w))
  IN [w EXCEPT
        !.nodes = Append(@, NewNode("onmessage", startAt, d, currentTime(w),
                                    w.liveNextStartTime[s])),
        !.liveNextStartTime[s] = startAt + d]

\* the messages ds that session s delivers in one task: every handler runs
\* to its await, on a promise that decodeAudioData has already settled, and
\* changes nothing; the continuations then run as microtasks, in the order
\* in which the handlers awaited
RECURSIVE onmessage(_, _, _)
onmessage(w, s, ds) ==
  IF ds = <<>> THEN w
  ELSE onmessage(onmessageResume(w, s, Head(ds)), s, Tail(ds))

\* the audio parts that arrive together
AudioParts == UNION {[1..n -> Durations] : n \in 1..MaxBatch}

\* session s delivers the messages ds, each with an audio part
OnMessage(s, ds) ==
  /\ recorder.sessions[s].state = "open"
  /\ ~recorder.sessions[s].closed
  /\ Len(nodes) + Len(ds) <= MaxNodes
  /\ Set(Handled(onmessage(World, s, ds), "onmessage"))
  /\ UNCHANGED now

\* the user clicks 'Stop recording', shown while the render has isRecording
\* true
StopRecording ==
  /\ recorder.rendered.isRecording
  /\ Set(Handled(stopRecording(World, recorder.rendered.audioStream),
                 "stopRecording"))
  /\ UNCHANGED now

\* the connection of session s reports an error
OnError(s) ==
  /\ recorder.sessions[s].state \in {"pending", "open"}
  /\ ~recorder.sessions[s].closed
  /\ Set(Handled(onerror(World, s), "onerror"))
  /\ UNCHANGED now

\* the scheduler of audioUtils under arbitrary callers
Next ==
  \/ \E d \in Durations : PlayBuffer(d)
  \/ \E throwing \in SUBSET MayThrow(World) : StopAll(throwing)
  \/ \E h \in DOMAIN nodes : SourceEnded(h)
  \/ Advance

Spec == Init /\ [][Next]_vars

\* the output device under one recording of GreetingForm, with the cards of
\* the page enqueueing through the scheduler
NextForm ==
  \/ \E d \in Durations : PlayBuffer(d)
  \/ \E throwing \in SUBSET MayThrow(World) : StopAll(throwing)
  \/ \E h \in DOMAIN nodes : SourceEnded(h)
  \/ Advance
  \/ /\ recorder.calls = 0
     /\ \E throwing \in SUBSET MayThrow(World) : StartRecording(throwing)
  \/ MicGranted(FALSE)
  \/ Commit
  \/ \E s \in DOMAIN recorder.sessions : ConnectFulfilled(s, FALSE)
  \/ \E s \in DOMAIN recorder.sessions, ds \in AudioParts : OnMessage(s, ds)
  \/ StopRecording

SpecForm == Init /\ [][NextForm]_vars

\* the capture pipeline of GreetingForm: the microphone, the frame processor
\* and the connection of the live session
NextCapture ==
  \/ StartRecording({})
  \/ \E aiThrows \in BOOLEAN : MicGranted(aiThrows)
  \/ MicDenied
  \/ Commit
  \/ \E p \in DOMAIN recorder.processors : AudioProcess(p)
  \/ \E s \in DOMAIN recorder.sessions, reused \in BOOLEAN :
        ConnectFulfilled(s, reused)
  \/ \E s \in DOMAIN recorder.sessions : ConnectRejected(s)
  \/ \E s \in DOMAIN recorder.sessions : OnError(s)
  \/ StopRecording

SpecCapture == Init /\ [][NextCapture]_vars

\* ------------------------------------------------------------ GreetingCard
NewElement == [media |-> "loading", playing |-> FALSE, listeners |-> {}]

NewRequest ==
  [at |-> now, deferred |-> "pending", el |-> 0, timeout |-> "none",
   armedAt |-> -1, readyAt |-> -1, timeoutFiredAt |-> -1, starts |-> 0,
   superseded |-> FALSE, closed |-> FALSE,
   startedSuperseded |-> FALSE, startedClosed |-> FALSE, lastStart |-> <<>>]

\* the render after setShowVideoPlayer(true): the <video> element is created
\* when the player was hidden, and kept when it was shown
Mount(w) ==
  IF w.videoRef # 0 THEN [w EXCEPT !.showVideoPlayer = TRUE]
  ELSE [w EXCEPT !.showVideoPlayer = TRUE,
                 !.elements = Append(@, NewElement),
                 !.videoRef = Len(w.elements) + 1]

\* the render after setShowVideoPlayer(false): the element leaves the
\* document, which pauses it; its listeners stay on it
Unmount(w) ==
  IF w.videoRef = 0 THEN [w EXCEPT !.showVideoPlayer = FALSE]
  ELSE [w EXCEPT !.showVideoPlayer = FALSE,
                 !.elements[w.videoRef].playing = FALSE,
                 !.videoRef = 0]

\* if (videoLoadTimeoutRef.current) { clearTimeout(...); ... = null }
ClearLoadTimeout(w) ==
  IF w.videoLoadTimeoutRef = 0 THEN w
  ELSE [w EXCEPT
          !.requests[w.videoLoadTimeoutRef].timeout =
             IF @ = "pending" THEN "cleared" ELSE @,
          !.videoLoadTimeoutRef = 0]

\* videoRef.current.pause(), when the ref is set
PauseVideo(w) ==
  IF w.videoRef = 0 THEN w ELSE [w EXCEPT !.elements[w.videoRef].playing = FALSE]

\* the data URLs of a stored greeting: PCM16, or base64 of an odd number of
\* bytes, on which decodeAudioData throws
AudioUrls == {"pcm16", "oddLength"}

\* _playAudioInternal() returns without throwing
AudioDecodes(w) == w.audioUrl = "pcm16"

\* _playAudioInternal(): decodeAudioData(decode(...), getOutputAudioContext(),
\* ...) and playAudioBuffer; the context exists before decodeAudioData throws
playAudioInternal(w) ==
  IF AudioDecodes(w) THEN playAudioBuffer(w, GreetingAudioDuration)
  ELSE getOutputAudioContext(w)

\* startBothPlayback without the try/catch around the audio: a failing
\* decode ends the routine before videoElement.play()
startBothPlaybackNoCatch(w0, k, ok) ==
  LET w1 == [ClearLoadTimeout(w0) EXCEPT !.videoPlaybackLoading = FALSE]
      w2 == playAudioInternal(w1)
      e == w0.requests[k].el
      w3 == IF ~AudioDecodes(w1) THEN w2
            ELSE IF ok /\ w2.elements[e].media # "error"
            THEN [w2 EXCEPT !.elements[e].playing = TRUE]
            ELSE [w2 EXCEPT !.videoError = TRUE]
  IN [w3 EXCEPT
        !.requests[k].starts = @ + 1,
        !.requests[k].startedSuperseded = @ \/ w0.requests[k].superseded,
        !.requests[k].startedClosed = @ \/ w0.requests[k].closed,
        !.requests[k].lastStart =
           IF AudioDecodes(w1) THEN <<"audio", "video">> ELSE <<"audioFailed">>]

\* startBothPlayback of request k; ok: videoElement.play() is fulfilled.
\* lastStart records the calls of the run in their order: the audio, enqueued
\* or failed and logged, then videoElement.play()
startBothPlayback(w0, k, ok) ==
  LET w1 == [ClearLoadTimeout(w0) EXCEPT !.videoPlaybackLoading = FALSE]
      w2 == playAudioInternal(w1)
      e == w0.requests[k].el
      w3 == IF ok /\ w2.elements[e].media # "error"
            THEN [w2 EXCEPT !.elements[e].playing = TRUE]
            ELSE [w2 EXCEPT !.videoError = TRUE]
  IN [w3 EXCEPT
        !.requests[k].starts = @ + 1,
        !.requests[k].startedSuperseded = @ \/ w0.requests[k].superseded,
        !.requests[k].startedClosed = @ \/ w0.requests[k].closed,
        !.requests[k].lastStart =
           <<IF AudioDecodes(w1) THEN "audio" ELSE "audioFailed", "video">>]

\* onVideoCanPlayThrough of request k
onVideoCanPlayThrough(w, k, ok) ==
  startBothPlayback(
    [w EXCEPT !.elements[w.requests[k].el].listeners = @ \ {k},
              !.requests[k].readyAt = now],
    k, ok)

\* the dispatch of 'canplaythrough' to the listeners ks, in the order in
\* which they were added
RECURSIVE DispatchCanPlayThrough(_, _, _)
DispatchCanPlayThrough(w, ks, ok) ==
  IF ks = {} THEN w
  ELSE LET k == SetMin(ks)
       IN DispatchCanPlayThrough(onVideoCanPlayThrough(w, k, ok), ks \ {k}, ok)

\* the callback of the ready-timeout of request k
onLoadTimeout(w, k, ok) ==
  startBothPlayback(
    [w EXCEPT !.elements[w.requests[k].el].listeners = @ \ {k},
              !.requests[k].timeout = "fired",
              !.requests[k].timeoutFiredAt = now],
    k, ok)

\* the deferred setup of request k, run by the 50 ms timer
deferredSetup(w, k) ==
  IF w.videoRef = 0 THEN [w EXCEPT !.requests[k].deferred = "void"]
  ELSE LET e == w.videoRef
       IN [w EXCEPT
             !.elements[e].media = "loading",
             !.elements[e].playing = FALSE,
             !.elements[e].listeners = @ \cup {k},
             !.requests[k].deferred = "ran",
             !.requests[k].el = e,
             !.requests[k].timeout = "pending",
             !.requests[k].armedAt = now,
             !.videoLoadTimeoutRef = k]

Supersede(w) ==
  [w EXCEPT !.requests = [k \in DOMAIN @ |-> [@[k] EXCEPT !.superseded = TRUE]]]

Close(w) ==
  [w EXCEPT !.requests = [k \in DOMAIN @ |-> [@[k] EXCEPT !.closed = TRUE]]]

\* handlePlayVideo, up to its setTimeout
handlePlayVideo(w, throwing) ==
  LET w1 == stopAllAudio(Supersede(w), throwing)
      w2 == Mount([w1 EXCEPT !.isPlayingAudio = FALSE, !.videoError = FALSE,
                             !.videoPlaybackLoading = TRUE])
      w3 == ClearLoadTimeout(w2)
  IN [w3 EXCEPT !.requests = Append(@, NewRequest)]

\* handlePlayAudio
handlePlayAudio(w, throwing) ==
  LET w1 == PauseVideo(stopAllAudio(Supersede(w), throwing))
      w2 == Unmount([w1 EXCEPT !.videoError = FALSE, !.isPlayingAudio = TRUE,
                               !.videoPlaybackLoading = FALSE])
  IN IF AudioDecodes(w2) THEN playAudioInternal(w2)
     ELSE [playAudioInternal(w2) EXCEPT !.isPlayingAudio = FALSE]

\* handlePauseAudio
handlePauseAudio(w, throwing) ==
  [stopAllAudio(w, throwing) EXCEPT !.isPlayingAudio = FALSE]

\* handleCloseVideoPlayer; its removeEventListener names a new function and
\* so removes no listener
handleCloseVideoPlayer(w, throwing) ==
  LET w1 == PauseVideo(ClearLoadTimeout(Close(w)))
      w2 == stopAllAudio(w1, throwing)
  IN Unmount([w2 EXCEPT !.isPlayingAudio = FALSE,
                        !.videoPlaybackLoading = FALSE,
                        !.videoError = FALSE])

\* handleVideoError
handleVideoError(w) ==
  [w EXCEPT !.videoError = TRUE, !.videoPlaybackLoading = FALSE,
            !.showVideoPlayer = TRUE]

\* the "Play Cinematic Video" button, disabled while videoPlaybackLoading
PlayVideo(throwing) ==
  /\ ~videoPlaybackLoading
  /\ Len(requests) < MaxRequests
  /\ Set(handlePlayVideo(World, throwing))
  /\ UNCHANGED now

\* the "Play Audio" button, shown while not isPlayingAudio
PlayAudio(throwing) ==
  /\ ~isPlayingAudio
  /\ Len(nodes) < MaxPlays
  /\ Set(handlePlayAudio(World, throwing))
  /\ UNCHANGED now

\* the "Pause Audio" button, shown while isPlayingAudio
PauseAudio(throwing) ==
  /\ isPlayingAudio
  /\ Set(handlePauseAudio(World, throwing))
  /\ UNCHANGED now

\* the "Close Video" button, disabled while videoPlaybackLoading, and the
\* "Close Error" button of the error overlay
CloseVideoPlayer(throwing) ==
  /\ showVideoPlayer
  /\ ~videoPlaybackLoading \/ videoError
  /\ Set(handleCloseVideoPlayer(World, throwing))
  /\ UNCHANGED now

\* the 50 ms timer of request k fires
DeferredSetup(k) ==
  /\ k \in DOMAIN requests
  /\ requests[k].deferred = "pending"
  /\ now = DeferDeadline(requests[k])
  /\ \A j \in 1..(k - 1) : requests[j].deferred # "pending"
  /\ Set(deferredSetup(World, k))
  /\ UNCHANGED now

\* the ready-timeout of request k fires
LoadTimeout(k, ok) ==
  /\ k \in DOMAIN requests
  /\ requests[k].timeout = "pending"
  /\ now = TimeoutDeadline(requests[k])
  /\ Len(nodes) < MaxPlays
  /\ Set(onLoadTimeout(World, k, ok))
  /\ UNCHANGED now

\* element e has buffered enough: 'canplaythrough' is dispatched to it,
\* whether it is in the document or not
CanPlayThrough(e, ok) ==
  /\ e \in DOMAIN elements
  /\ elements[e].media = "loading"
  /\ Len(nodes) + Cardinality(elements[e].listeners) <= MaxPlays
  /\ Set(DispatchCanPlayThrough([World EXCEPT !.elements[e].media = "enough"],
                                elements[e].listeners, ok))
  /\ UNCHANGED now

\* the mounted element fails to load or to decode: onError
VideoError ==
  /\ videoRef # 0
  /\ elements[videoRef].media # "error"
  /\ Set(handleVideoError([World EXCEPT !.elements[videoRef].media = "error",
                                        !.elements[videoRef].playing = FALSE]))
  /\ UNCHANGED now

\* a playing element reaches the end of the video; the card has no handler
VideoEnded(e) ==
  /\ e \in DOMAIN elements
  /\ elements[e].playing
  /\ Set([World EXCEPT !.elements[e].playing = FALSE])
  /\ UNCHANGED now

\* one GreetingCard on the page, and the output device
NextCard ==
  \/ \E throwing \in SUBSET MayThrow(World) : PlayVideo(throwing)
  \/ \E throwing \in SUBSET MayThrow(World) : PlayAudio(throwing)
  \/ \E throwing \in SUBSET MayThrow(World) : PauseAudio(throwing)
  \/ \E throwing \in SUBSET MayThrow(World) : CloseVideoPlayer(throwing)
  \/ \E k \in DOMAIN requests : DeferredSetup(k)
  \/ \E k \in DOMAIN requests : \E ok \in BOOLEAN : LoadTimeout(k, ok)
  \/ \E e \in DOMAIN elements : \E ok \in BOOLEAN : CanPlayThrough(e, ok)
  \/ VideoError
  \/ \E e \in DOMAIN elements : VideoEnded(e)
  \/ \E h \in DOMAIN nodes : SourceEnded(h)
  \/ Advance

SpecCard == Init /\ [][NextCard]_vars

\* the card of a greeting whose audio decodes, or does not
InitCard == InitState /\ audioUrl \in AudioUrls /\ codec = CodecIdle
            /\ app = AppStart(0, {})

SpecCardAudio == InitCard /\ [][NextCard]_vars

\* audioRef.current when the effect of the card runs: the <audio> element,
\* which every render of the card contains
audioEl == TRUE

\* the cleanup that the effect on [greeting.id, handleCloseVideoPlayer]
\* returns: with an <audio> element, the function that removes its three
\* listeners; without one, the function that calls handleCloseVideoPlayer
effectCleanup(w, throwing) ==
  IF audioEl THEN w ELSE handleCloseVideoPlayer(w, throwing)

\* React removes the card from the page: the cleanup of its effect runs and
\* its elements leave the document, which pauses the video
unmountCard(w, throwing) ==
  LET w1 == effectCleanup(w, throwing)
      w2 == IF w1.videoRef = 0 THEN w1
            ELSE [w1 EXCEPT !.elements[w1.videoRef].playing = FALSE,
                            !.videoRef = 0]
  IN [w2 EXCEPT !.cardMounted = FALSE]

\* the greeting of the card is deleted from the list
UnmountCard(throwing) ==
  /\ cardMounted
  /\ Set(unmountCard(World, throwing))
  /\ UNCHANGED now

\* a user action on the card, possible while the card is in the page
CardButton ==
  \/ \E throwing \in SUBSET MayThrow(World) : PlayVideo(throwing)
  \/ \E throwing \in SUBSET MayThrow(World) : PlayAudio(throwing)
  \/ \E throwing \in SUBSET MayThrow(World) : PauseAudio(throwing)
  \/ \E throwing \in SUBSET MayThrow(World) : CloseVideoPlayer(throwing)

\* one GreetingCard until and after its removal from the page: its timers
\* and the events of its elements and nodes still occur afterwards
NextCardLife ==
  \/ cardMounted /\ CardButton
  \/ \E throwing \in SUBSET MayThrow(World) : UnmountCard(throwing)
  \/ \E k \in DOMAIN requests : DeferredSetup(k)
  \/ \E k \in DOMAIN requests : \E ok \in BOOLEAN : LoadTimeout(k, ok)
  \/ \E e \in DOMAIN elements : \E ok \in BOOLEAN : CanPlayThrough(e, ok)
  \/ VideoError
  \/ \E e \in DOMAIN elements : VideoEnded(e)
  \/ \E h \in DOMAIN nodes : SourceEnded(h)
  \/ Advance

SpecCardLife == Init /\ [][NextCardLife]_vars

\* ---------------------------------------------------- SharedGreetingPlayer
\* the render: the <video> is in the page when the greeting is loaded and no
\* error is set; the error page replaces it, which removes the element from
\* the document and pauses it
PlayerRender(w) ==
  LET p == w.player
  IN IF p.greeting /\ ~p.error /\ p.videoRef = 0
     THEN [w EXCEPT !.player.elements =
                        Append(@, [playing |-> FALSE, ended |-> FALSE,
                                   listeners |-> {}]),
                    !.player.videoRef = Len(p.elements) + 1]
     ELSE IF p.error /\ p.videoRef # 0
     THEN [w EXCEPT !.player.elements[p.videoRef].playing = FALSE,
                    !.player.videoRef = 0]
     ELSE w

\* if (videoLoadTimeoutRef.current) { clearTimeout(...); ... = null }
PlayerClearLoadTimeout(w) ==
  LET k == w.player.videoLoadTimeoutRef
  IN IF k = 0 THEN w
     ELSE [w EXCEPT !.player.requests[k].timeout =
                        IF @ = "pending" THEN "cleared" ELSE @,
                    !.player.videoLoadTimeoutRef = 0]

\* startCombinedPlayback() with a greeting that has audio and video, called
\* by the autoplay effect or by the 'Play Greeting' button (via)
startCombinedPlayback(w, via, throwing) ==
  LET w1 == stopAllAudio(w, throwing)
      w2 == [w1 EXCEPT !.player.videoPlaybackLoading = TRUE,
                       !.player.error = FALSE,
                       !.player.isPlaying = FALSE]
      w3 == PlayerClearLoadTimeout(w2)
  IN PlayerRender(
       [w3 EXCEPT !.player.requests =
                     Append(@, [via |-> via, deferred |-> "pending", el |-> 0,
                                timeout |-> "none", starts |-> 0,
                                play |-> "none"])])

\* the autoplay effect, run by React after a render in which one of its
\* dependencies (greeting, startCombinedPlayback, autoplayAttempted,
\* isPlaying) changed
autoplayEffect(w, throwing) ==
  LET p == w.player
      w1 == [w EXCEPT !.player.effectDeps =
                        <<p.greeting, p.autoplayAttempted, p.isPlaying>>]
  IN IF p.greeting /\ ~p.autoplayAttempted /\ ~p.isPlaying
     THEN startCombinedPlayback(w1, "effect", throwing)
     ELSE w1

\* finalizePlaybackStart of request k: the timeout in the ref is cleared,
\* the audio is enqueued (a failure is logged), then videoElement.play() is
\* called, whose promise settles later
finalizePlaybackStart(w0, k) ==
  LET w1 == [PlayerClearLoadTimeout(w0) EXCEPT
               !.player.videoPlaybackLoading = FALSE]
      w2 == playAudioInternal(w1)
  IN [w2 EXCEPT !.player.requests[k].starts = @ + 1,
                !.player.requests[k].play = "pending"]

\* the promise of videoElement.play() of request k settles: fulfilled,
\* setIsPlaying(true); rejected, the error is set with
\* setAutoplayAttempted(true)
playSettled(w, k, ok) ==
  LET e == w.player.requests[k].el
      w1 == [w EXCEPT !.player.requests[k].play = "settled"]
  IN PlayerRender(
       IF ok
       THEN [w1 EXCEPT !.player.elements[e].playing = TRUE,
                       !.player.elements[e].ended = FALSE,
                       !.player.isPlaying = TRUE]
       ELSE [w1 EXCEPT !.player.error = TRUE,
                       !.player.isPlaying = FALSE,
                       !.player.autoplayAttempted = TRUE])

\* the callback of setTimeout(..., 50) of request k: when the element is
\* there, load(), the 'canplaythrough' listener and the 10 s timeout
playerDeferredSetup(w, k) ==
  LET e == w.player.videoRef
  IN IF e = 0 THEN [w EXCEPT !.player.requests[k].deferred = "done"]
     ELSE [w EXCEPT !.player.requests[k].deferred = "done",
                    !.player.requests[k].el = e,
                    !.player.requests[k].timeout = "pending",
                    !.player.elements[e].playing = FALSE,
                    !.player.elements[e].ended = FALSE,
                    !.player.elements[e].listeners = @ \cup {k},
                    !.player.videoLoadTimeoutRef = k]

\* the element dispatches 'canplaythrough' to its listeners, in the order
\* in which they were added
RECURSIVE PlayerDispatch(_, _, _)
PlayerDispatch(w, e, ks) ==
  IF ks = {} THEN w
  ELSE LET k == SetMin(ks)
           w1 == [w EXCEPT !.player.elements[e].listeners = @ \ {k}]
       IN PlayerDispatch(finalizePlaybackStart(w1, k), e, ks \ {k})

\* handleVideoEnded
playerHandleVideoEnded(w, throwing) ==
  stopAllAudio([w EXCEPT !.player.isPlaying = FALSE], throwing)

\* handleVideoError
playerHandleVideoError(w) ==
  PlayerRender([w EXCEPT !.player.error = TRUE,
                         !.player.videoPlaybackLoading = FALSE,
                         !.player.isPlaying = FALSE])

\* a render changed a dependency of the autoplay effect: the effect runs
\* before any other event is handled
EffectPending ==
  player.effectDeps #
    <<player.greeting, player.autoplayAttempted, player.isPlaying>>

\* fetchGreeting() found the greeting
FetchGreeting ==
  /\ ~EffectPending
  /\ ~player.greeting
  /\ Set(PlayerRender([World EXCEPT !.player.greeting = TRUE]))
  /\ UNCHANGED now

\* React runs the autoplay effect
AutoplayEffect(throwing) ==
  /\ EffectPending
  /\ Len(player.requests) < MaxRequests
  /\ Set(autoplayEffect(World, throwing))
  /\ UNCHANGED now

\* the user clicks 'Play Greeting', shown when nothing is loading or playing
PlayGreeting(throwing) ==
  /\ ~EffectPending
  /\ player.videoRef # 0
  /\ ~player.videoPlaybackLoading
  /\ ~player.isPlaying
  /\ Len(player.requests) < MaxRequests
  /\ Set(startCombinedPlayback(World, "button", throwing))
  /\ UNCHANGED now

\* the 50 ms timer of request k fires
PlayerDeferredSetup(k) ==
  /\ ~EffectPending
  /\ player.requests[k].deferred = "pending"
  /\ Set(playerDeferredSetup(World, k))
  /\ UNCHANGED now

\* the element e can play through
PlayerCanPlayThrough(e) ==
  /\ ~EffectPending
  /\ player.elements[e].listeners # {}
  /\ Len(nodes) + Cardinality(player.elements[e].listeners) <= MaxNodes
  /\ Set(PlayerDispatch(World, e, player.elements[e].listeners))
  /\ UNCHANGED now

\* the 10 s timer of request k fires: its listener is removed and playback
\* is started anyway
PlayerLoadTimeout(k) ==
  /\ ~EffectPending
  /\ player.requests[k].timeout = "pending"
  /\ Len(nodes) < MaxNodes
  /\ LET e == player.requests[k].el
         w == [World EXCEPT !.player.requests[k].timeout = "fired",
                            !.player.elements[e].listeners = @ \ {k}]
     IN Set(finalizePlaybackStart(w, k))
  /\ UNCHANGED now

\* the promise of play() of request k is fulfilled (ok) or rejected
PlaySettled(k, ok) ==
  /\ ~EffectPending
  /\ player.requests[k].play = "pending"
  /\ Set(playSettled(World, k, ok))
  /\ UNCHANGED now

\* the video in the page played to its end
PlayerVideoEnded(throwing) ==
  /\ ~EffectPending
  /\ player.videoRef # 0
  /\ player.elements[player.videoRef].playing
  /\ LET e == player.videoRef
         w == [World EXCEPT !.player.elements[e].playing = FALSE,
                            !.player.elements[e].ended = TRUE]
     IN Set(playerHandleVideoEnded(w, throwing))
  /\ UNCHANGED now

\* the video in the page fails to load
PlayerVideoError ==
  /\ ~EffectPending
  /\ player.videoRef # 0
  /\ Set(playerHandleVideoError(World))
  /\ UNCHANGED now

\* the page of a shared greeting, and the output device
NextPlayer ==
  \/ FetchGreeting
  \/ \E throwing \in SUBSET MayThrow(World) : AutoplayEffect(throwing)
  \/ \E throwing \in SUBSET MayThrow(World) : PlayGreeting(throwing)
  \/ \E k \in DOMAIN player.requests : PlayerDeferredSetup(k)
  \/ \E e \in DOMAIN player.elements : PlayerCanPlayThrough(e)
  \/ \E k \in DOMAIN player.requests : PlayerLoadTimeout(k)
  \/ \E k \in DOMAIN player.requests, ok \in BOOLEAN : PlaySettled(k, ok)
  \/ \E throwing \in SUBSET MayThrow(World) : PlayerVideoEnded(throwing)
  \/ PlayerVideoError
  \/ \E h \in DOMAIN nodes : SourceEnded(h)
  \/ Advance

SpecPlayer == InitCard /\ [][NextPlayer]_vars

\* ------------------------------------------------------- codec pipeline
ByteValues == {0, 1, 85, 127, 128, 255}
ByteSeqs == UNION {[1..n -> ByteValues] : n \in 0..MaxBytes}

\* samples around 0, around the ends of [-1, 1], and beyond them
SampleValues ==
  {0, 1, SubSteps - 1, SubSteps, SubSteps + 1, -1, -SubSteps, -SubSteps - 1,
   SampleUnit \div 2, SampleUnit - SubSteps - 1, SampleUnit - 1, SampleUnit,
   SampleUnit + SubSteps, (3 * SampleUnit) \div 2, 2 * SampleUnit + 1,
   -SampleUnit + 1, -SampleUnit, -SampleUnit - 1, -SampleUnit - SubSteps,
   -(3 * SampleUnit) \div 2}
SampleSeqs == UNION {[1..n -> SampleValues] : n \in 0..MaxSamples}
Channels == {1, 2}

\* bytes to encode and decode, or a frame of samples to send
InitCodec ==
  /\ InitState
  /\ audioUrl = "pcm16"
  /\ app = AppStart(0, {})
  /\ \/ \E b \in ByteSeqs :
          codec = [CodecIdle EXCEPT !.stage = "bytesIn", !.bytesIn = b]
     \/ \E f \in SampleSeqs :
          codec = [CodecIdle EXCEPT !.stage = "samples", !.samples = f,
                                    !.frames = 1]

\* the sender encodes raw bytes
Encode ==
  /\ codec.stage = "bytesIn"
  /\ Set([World EXCEPT !.codec.data = encode(codec.bytesIn),
                       !.codec.stage = "blob"])
  /\ UNCHANGED now

\* createAudioBlob called with the rate of the output device
CreateAudioBlobOutputRate ==
  /\ codec.stage = "samples"
  /\ LET blob == createAudioBlob(codec.samples, OUTPUT_AUDIO_SAMPLE_RATE)
     IN Set([World EXCEPT !.codec.data = blob.data,
                          !.codec.mimeType = blob.mimeType,
                          !.codec.blobs = @ + 1,
                          !.codec.stage = "blob"])
  /\ UNCHANGED now

\* onaudioprocess: createAudioBlob(inputData, AUDIO_SAMPLE_RATE), one encoded
\* frame for the frame of the tick
CreateAudioBlob ==
  /\ codec.stage = "samples"
  /\ LET blob == createAudioBlob(codec.samples, AUDIO_SAMPLE_RATE)
     IN Set([World EXCEPT !.codec.data = blob.data,
                          !.codec.mimeType = blob.mimeType,
                          !.codec.blobs = @ + 1,
                          !.codec.stage = "blob"])
  /\ UNCHANGED now

\* onaudioprocess: the next tick brings the next frame, once the frame before
\* it was converted; only a capture has frames
NextFrame(f) ==
  /\ codec.stage = "blob"
  /\ codec.frames > 0
  /\ codec.frames < MaxFrames
  /\ Set([World EXCEPT
            !.codec = [CodecIdle EXCEPT !.stage = "samples", !.samples = f,
                                       !.frames = codec.frames + 1,
                                       !.blobs = codec.blobs]])
  /\ UNCHANGED now

\* the receiver: decode(base64Audio)
Decode ==
  /\ codec.stage = "blob"
  /\ Set([World EXCEPT !.codec.bytes = decode(codec.data),
                       !.codec.stage = "bytes"])
  /\ UNCHANGED now

\* the receiver: decodeAudioData(decode(base64Audio), ctx, rate, numChannels)
DecodeAudioData(numChannels) ==
  /\ codec.stage = "bytes"
  /\ Set([World EXCEPT
            !.codec.numChannels = numChannels,
            !.codec.buffer = decodeAudioData(codec.bytes, numChannels),
            !.codec.stage = "buffer"])
  /\ UNCHANGED now

NextCodec ==
  \/ Encode
  \/ CreateAudioBlob
  \/ \E f \in SampleSeqs : NextFrame(f)
  \/ Decode
  \/ \E numChannels \in Channels : DecodeAudioData(numChannels)

SpecCodec == InitCodec /\ [][NextCodec]_vars

\* ------------------------------------------------------------ the claims
Pab == {h \in DOMAIN nodes : nodes[h].via = "playAudioBuffer"}
PabSeq == SelectSeq(nodes, LAMBDA n : n.via = "playAudioBuffer")

\* C1: the scheduled regions [startAt, startAt + duration) of two buffers
\* enqueued through playAudioBuffer never overlap, and the later-enqueued
\* buffer never starts before the earlier one's region ends.
C1_RegionsNeverOverlap ==
  \A i \in Pab : \A j \in Pab :
    i < j => nodes[j].startAt >= EndOf(nodes[i])

\* a buffer was enqueued while the region of an earlier one, stopped by
\* stopAllAudio in between, had not yet ended
C1_Witness ==
  \E i \in Pab : \E j \in Pab :
    /\ i < j
    /\ nodes[i].halted
    /\ nodes[j].enqueuedAt < EndOf(nodes[i])

\* C2: playAudioBuffer starts the buffer at max(cursor, currentTime), sets
\* the cursor to that start plus the duration and adds the handle to the
\* active set; the handle leaves the set when its 'ended' event is
\* dispatched (or on stopAllAudio), and not otherwise.
C2_EnqueueContract ==
  /\ \A h \in Pab :
       /\ nodes[h].startAt = Max(nodes[h].cursorBefore, nodes[h].enqueuedAt)
       /\ nodes[h].endedFired => h \notin audioSources
       /\ h \notin audioSources => nodes[h].endedFired \/ nodes[h].stopCalled
  /\ Pab # {} =>
       LET last == CHOOSE h \in Pab : \A g \in Pab : g <= h
       IN nextStartTime = nodes[last].startAt + nodes[last].duration

\* a handle completed naturally and was removed, another is still active
C2_Witness ==
  \E h \in Pab : \E g \in Pab :
    /\ nodes[h].endedFired /\ ~nodes[h].stopCalled /\ h \notin audioSources
    /\ g \in audioSources
    /\ nodes[g].cursorBefore > nodes[g].enqueuedAt

\* C3: of three buffers enqueued one after another, the clock not passing
\* the cursor between the calls, the second starts at the first's start plus
\* the first's duration and the third at that plus the second's duration.
C3_GaplessStarts ==
  \A i \in 1..(Len(PabSeq) - 2) :
    LET b1 == PabSeq[i]
        b2 == PabSeq[i + 1]
        b3 == PabSeq[i + 2]
    IN (b2.enqueuedAt <= EndOf(b1) /\ b3.enqueuedAt <= EndOf(b2)) =>
         /\ b2.startAt = b1.startAt + b1.duration
         /\ b3.startAt = b1.startAt + b1.duration + b2.duration

\* three buffers of durations 2 s, 3 s and 2 s were enqueued back to back,
\* the first some time after the device was created
C3_Witness ==
  /\ Len(PabSeq) >= 3
  /\ PabSeq[2].enqueuedAt <= EndOf(PabSeq[1])
  /\ PabSeq[3].enqueuedAt <= EndOf(PabSeq[2])
  /\ PabSeq[1].duration = 2000 /\ PabSeq[2].duration = 3000
  /\ PabSeq[3].startAt = PabSeq[1].startAt + 5000

\* C4: a step in which stopAllAudio commands a handle to stop leaves the
\* active set empty and has commanded every handle the set held, a throwing
\* stop() notwithstanding; and a buffer enqueued through playAudioBuffer,
\* after a stopAllAudio or not, never starts before the device time of the
\* call.
C4_StopAllEmptiesSet ==
  [][/\ (\E h \in audioSources : ~nodes[h].stopCalled /\ nodes'[h].stopCalled) =>
          /\ audioSources' = {}
          /\ \A h \in audioSources : nodes'[h].stopCalled
     /\ \A h \in DOMAIN nodes' :
          nodes'[h].via = "playAudioBuffer" =>
            nodes'[h].startAt >= nodes'[h].enqueuedAt]_vars

\* a stopAllAudio met a handle whose stop() threw and halted a later one,
\* and a buffer was enqueued afterwards
C4_Witness ==
  \E h \in Pab : \E g \in Pab : \E k \in Pab :
    /\ h < g /\ g < k
    /\ nodes[h].stopCalled /\ ~nodes[h].halted
    /\ nodes[g].halted
    /\ audioSources = {k}
    /\ nodes[k].startAt >= nodes[k].enqueuedAt

\* C5: the cursor never decreases, and it changes only in a step that
\* enqueues a buffer through playAudioBuffer.
C5_CursorMonotonic ==
  [][/\ nextStartTime' >= nextStartTime
     /\ nextStartTime' # nextStartTime =>
          /\ Len(nodes') = Len(nodes) + 1
          /\ nodes'[Len(nodes')].via = "playAudioBuffer"]_vars

\* stopAllAudio ran while the cursor was ahead of zero and behind the clock
C5_Witness ==
  /\ audioSources = {}
  /\ nextStartTime > 0
  /\ \E h \in Pab : nodes[h].halted
  /\ currentTime(World) > nextStartTime

\* C6: every buffer the application started on the output device is in the
\* active set while it is scheduled or playing, so after stopAllAudio none
\* is still scheduled or audible.
C6_AllStartedAudioTracked ==
  \A h \in DOMAIN nodes : Audible(World, h) => h \in audioSources

\* C7: a request whose video signalled 'canplaythrough' before its timeout
\* has its timeout timer cancelled, so its timeout callback never fires.
C7_ReadyCancelsTimeout ==
  \A k \in DOMAIN requests :
    requests[k].readyAt # -1 => requests[k].timeout = "cleared"

\* C8 as stated: a request whose video never signals ready starts through
\* its timeout when 10 s have elapsed since the playback request.
C8_TimeoutTenSecondsAfterRequest ==
  \A k \in DOMAIN requests :
    requests[k].timeout = "fired" =>
      requests[k].timeoutFiredAt = requests[k].at + LOAD_TIMEOUT

\* C8, amended: the timeout callback of a request runs the start routine
\* exactly 10 s after the deferred setup armed it, that is 10 050 ms after
\* the playback request, and a request whose listener and timeout have not
\* run has not started.
C8_TimeoutAfterRenderDelay ==
  \A k \in DOMAIN requests :
    /\ requests[k].timeout = "fired" =>
         /\ requests[k].timeoutFiredAt =
              requests[k].at + RENDER_DELAY + LOAD_TIMEOUT
         /\ requests[k].starts >= 1
    /\ (requests[k].readyAt = -1 /\ requests[k].timeout # "fired") =>
         requests[k].starts = 0

\* a single request, never torn down, whose video never signalled ready,
\* started through its timeout and its video plays
C8_Witness ==
  /\ Len(requests) = 1
  /\ requests[1].timeout = "fired"
  /\ requests[1].readyAt = -1
  /\ ~requests[1].superseded /\ ~requests[1].closed
  /\ requests[1].starts = 1
  /\ elements[requests[1].el].playing
  /\ audioSources # {}

\* C9: a new playback request tears the previous session down, so that no
\* timer or listener of an earlier request starts playback after it.
C9_NoStartOfSupersededRequest ==
  \A k \in DOMAIN requests : ~requests[k].startedSuperseded

\* C10: the start routine of a request never runs after
\* handleCloseVideoPlayer has closed the request's session.
C10_NoStartAfterClose ==
  \A k \in DOMAIN requests :
    requests[k].closed => ~requests[k].startedClosed

\* C11: a step in which the video element of a session not yet in Error
\* reports a resource error leaves the session in Error, with a message, and
\* the scheduler's active set empty.
C11_ErrorLeavesActiveSetEmpty ==
  [][(/\ ~videoError
      /\ \E e \in DOMAIN elements :
           elements[e].media # "error" /\ elements'[e].media = "error") =>
       /\ videoError'
       /\ ~videoPlaybackLoading'
       /\ audioSources' = {}]_vars

\* C12: while the card shows a video error, and until a handler of the
\* caller clears it, the start routine of no request runs.
C12_NoStartWhileInError ==
  [][videoError =>
       \A k \in DOMAIN requests : requests'[k].starts = requests[k].starts]_vars

\* C13: every run of the start routine handles the audio first and commands
\* the video to play after it: audio that decodes is enqueued through the
\* scheduler; audio that fails to decode adds nothing, the video is commanded
\* to play all the same, and the session shows an error only if that play()
\* is rejected.
C13_AudioFirstThenVideo ==
  [][\A k \in DOMAIN requests :
       requests'[k].starts > requests[k].starts =>
         LET e == requests[k].el
         IN IF audioUrl = "pcm16"
            THEN /\ requests'[k].lastStart = <<"audio", "video">>
                 /\ Len(nodes') > Len(nodes)
                 /\ nodes'[Len(nodes')].via = "playAudioBuffer"
                 /\ Len(nodes') \in audioSources'
            ELSE /\ requests'[k].lastStart = <<"audioFailed", "video">>
                 /\ nodes' = nodes
                 /\ elements'[e].playing \/ videoError'
                 /\ (~elements[e].playing /\ elements'[e].playing) =>
                      videoError' = videoError]_vars

\* the audio of the greeting failed to decode, and the video of the request
\* plays alone with no error shown
C13_Witness ==
  \E k \in DOMAIN requests :
    /\ requests[k].lastStart = <<"audioFailed", "video">>
    /\ elements[requests[k].el].playing
    /\ ~videoError
    /\ nodes = <<>>

\* C14: for every byte sequence b, the empty one included, decode(encode(b))
\* is b, in length and in content.
C14_DecodeEncodeRoundTrip ==
  (codec.stage \in {"bytes", "buffer"} /\ codec.samples = <<>>) =>
    /\ Len(codec.bytes) = Len(codec.bytesIn)
    /\ \A i \in 1..Len(codec.bytesIn) : codec.bytes[i] = codec.bytesIn[i]

\* four bytes, whose base64 text ends in padding, came back
C14_Witness ==
  /\ codec.stage = "bytes"
  /\ codec.bytesIn = <<255, 0, 128, 127>>
  /\ Len(codec.data) = 8
  /\ codec.data[7] = PAD /\ codec.data[8] = PAD
  /\ codec.bytes = codec.bytesIn

\* the int16 values that the base64 text of a blob holds
BlobInt16 == BytesInt16(decode(codec.data))

\* t is s * 32768 with its fraction dropped towards zero, for the sample s
\* that n stands for
IsTruncation(t, n) ==
  IF n >= 0 THEN t * SubSteps <= n /\ n < (t + 1) * SubSteps
  ELSE (t - 1) * SubSteps < n /\ n <= t * SubSteps

\* C15: createAudioBlob turns each sample s into the 16-bit signed integer
\* that is s * 32768, truncated, modulo 2^16: the value is in
\* [-32768, 32767] and differs from the truncated product by a multiple of
\* 2^16, which is not 0 when the product is outside the range (no clamping).
C15_TruncateAndWrap ==
  (codec.stage \in {"blob", "bytes", "buffer"} /\ codec.samples # <<>>) =>
    /\ Len(BlobInt16) = Len(codec.samples)
    /\ \A i \in 1..Len(codec.samples) :
         /\ BlobInt16[i] >= -PCM_SCALE
         /\ BlobInt16[i] < PCM_SCALE
         /\ \E q \in -2..2 :
              IsTruncation(BlobInt16[i] + q * 2 * PCM_SCALE, codec.samples[i])

\* the samples 1.0 and 1.5 were converted: they wrapped to -32768 and -16384
C15_Witness ==
  /\ codec.stage = "blob"
  /\ codec.samples = <<SampleUnit, (3 * SampleUnit) \div 2>>
  /\ BlobInt16 = <<-PCM_SCALE, -(PCM_SCALE \div 2)>>

\* the int16 values of the bytes given to decodeAudioData, read from the
\* bytes themselves: low byte first, two's complement
InputInt16(j) ==
  LET u == codec.bytes[2 * j - 1] + 256 * codec.bytes[2 * j]
  IN IF u < PCM_SCALE THEN u ELSE u - 2 * PCM_SCALE

\* C16: a buffer that decodeAudioData yields has, per channel, as many frames
\* as the input has int16 values divided by the channel count, so that the
\* values number frames times channels; sample i of channel c is the int16
\* value at index i * channels + c over 32768, a number in [-1, 1).
C16_DecodedBufferLayout ==
  (codec.stage = "buffer" /\ codec.buffer.error = "") =>
    LET b == codec.buffer
    IN /\ b.numberOfChannels = codec.numChannels
       /\ b.length * b.numberOfChannels * 2 = Len(codec.bytes)
       /\ \A c \in 1..b.numberOfChannels : \A i \in 1..b.length :
            /\ b.channelData[c][i] = InputInt16((i - 1) * b.numberOfChannels + c)
            /\ b.channelData[c][i] >= -PCM_SCALE
            /\ b.channelData[c][i] < PCM_SCALE

Abs(x) == IF x >= 0 THEN x ELSE -x

\* sample i of a frame sent through createAudioBlob, decode and the mono
\* decodeAudioData came back within 1/32768 of its value
WithinOneStep(i) ==
  Abs(codec.buffer.channelData[1][i] * SubSteps - codec.samples[i]) <= SubSteps

\* a frame of samples went through createAudioBlob and back through the mono
\* decodeAudioData
FrameCameBack ==
  /\ codec.stage = "buffer"
  /\ codec.samples # <<>>
  /\ codec.numChannels = 1
  /\ codec.buffer.error = ""

\* C17 as stated: every sample s with -1 <= s <= 1 comes back from
\* createAudioBlob and decodeAudioData within 1/32768 of s.
C17_RoundTripWithinUnitInterval ==
  FrameCameBack =>
    \A i \in 1..Len(codec.samples) :
      (-SampleUnit <= codec.samples[i] /\ codec.samples[i] <= SampleUnit) =>
        WithinOneStep(i)

\* C17, amended: every sample s with -1 <= s < 1 comes back within 1/32768
\* of s; the sample 1.0 comes back as -1.0.
C17_RoundTripBelowOne ==
  FrameCameBack =>
    \A i \in 1..Len(codec.samples) :
      /\ (-SampleUnit <= codec.samples[i] /\ codec.samples[i] < SampleUnit) =>
           WithinOneStep(i)
      /\ codec.samples[i] = SampleUnit =>
           codec.buffer.channelData[1][i] = -PCM_SCALE

\* the sample just below 1.0 came back as 32767/32768, short of its value,
\* and the sample -1.0 came back as itself
C17_Witness ==
  /\ FrameCameBack
  /\ codec.samples = <<SampleUnit - 1, -SampleUnit>>
  /\ codec.buffer.channelData[1] = <<PCM_SCALE - 1, -PCM_SCALE>>

\* C18: decodeAudioData fails, and yields no buffer, whenever the byte length
\* of its input is not a multiple of 2 x channelCount.
C18_RejectsMisalignedInput ==
  (codec.stage = "buffer" /\ Len(codec.bytes) % (2 * codec.numChannels) # 0) =>
    /\ codec.buffer.error # ""
    /\ codec.buffer.length = 0

\* the frames session s received, as a set
Forwarded(s) ==
  {recorder.sessions[s].sent[i] : i \in DOMAIN recorder.sessions[s].sent}

\* the accumulator holds the frames of the ticks since it was last cleared,
\* in tick order
AccumulatedInOrder ==
  \E k \in 0..Len(recorder.ticks) :
    recorder.audioChunks = [i \in 1..(Len(recorder.ticks) - k) |-> k + i]

\* what a session received are frames of ticks that saw its reference, each
\* once and in tick order
ForwardedOnlyWithReference ==
  \A s \in DOMAIN recorder.sessions :
    LET sent == recorder.sessions[s].sent
    IN /\ \A i \in DOMAIN sent :
            sent[i] \in DOMAIN recorder.ticks /\ recorder.ticks[sent[i]].ref = s
       /\ \A i, j \in DOMAIN sent : i < j => sent[i] < sent[j]

\* the frame of a tick that saw a reference has reached that session once
\* its connection is no longer pending
ForwardedWithReference ==
  \A f \in DOMAIN recorder.ticks :
    LET s == recorder.ticks[f].ref
    IN s # 0 /\ recorder.sessions[s].state # "pending" => f \in Forwarded(s)

\* C19: every capture tick appends its frame to the accumulator, in order,
\* whether or not a session exists, and the frame of a tick is forwarded to
\* the streaming session if and only if a session reference exists at that
\* tick.
C19_AccumulatedAlwaysForwardedIffReference ==
  /\ AccumulatedInOrder
  /\ ForwardedOnlyWithReference
  /\ ForwardedWithReference

\* C20: when the microphone is refused, startRecording sets the error
\* message and leaves isRecording false, and creates or connects no frame
\* processor and opens no streaming session.
C20_MicDeniedStartsNothing ==
  [][(/\ Len(recorder'.getUserMedia) < Len(recorder.getUserMedia)
      /\ recorder'.streams = recorder.streams) =>
       /\ recorder'.error
       /\ ~recorder'.isRecording
       /\ recorder'.processors = recorder.processors
       /\ recorder'.scriptProcessorRef = recorder.scriptProcessorRef
       /\ recorder'.sessions = recorder.sessions
       /\ liveSessionRef' = liveSessionRef]_vars

\* the microphone was refused on the first request: the error is shown and
\* nothing was created
C20_Witness ==
  /\ recorder.calls > 0
  /\ recorder.getUserMedia = <<>>
  /\ recorder.streams = <<>>
  /\ recorder.error
  /\ ~recorder.isRecording
  /\ recorder.processors = <<>>
  /\ recorder.sessions = <<>>

\* no track of any acquired microphone stream is live
MicrophoneReleased(r) == \A i \in DOMAIN r.streams : ~r.streams[i]

\* no frame processor is connected to the destination
ProcessorsDisconnected(r) ==
  \A p \in DOMAIN r.processors : ~r.processors[p].connected

\* every session is closed, will be closed as soon as its connection is
\* fulfilled, or never came to exist
SessionsClosed(r) ==
  \A s \in DOMAIN r.sessions :
    \/ r.sessions[s].closed
    \/ r.sessions[s].state \in {"rejected", "failed"}
    \/ \E i \in DOMAIN r.sessions[s].thens : r.sessions[s].thens[i] = CloseSession

\* C21: an explicit stopRecording stops every track of the microphone
\* stream, disconnects the frame processor, closes the streaming session and
\* clears its reference, and leaves the accumulated samples unchanged.
C21_StopReleasesEverything ==
  [][recorder'.handler = "stopRecording" /\ recorder' # recorder =>
       /\ MicrophoneReleased(recorder')
       /\ ProcessorsDisconnected(recorder')
       /\ SessionsClosed(recorder')
       /\ liveSessionRef' = 0
       /\ recorder'.audioChunks = recorder.audioChunks]_vars

\* C22: when the streaming session reports an error, the error is shown and
\* capture is stopped as by an explicit stop: the tracks of the microphone
\* stream are stopped, the frame processor is disconnected and the session
\* closed, and the accumulated samples are kept.
C22_SessionErrorStopsCapture ==
  [][recorder'.handler = "onerror" /\ recorder' # recorder =>
       /\ recorder'.error
       /\ MicrophoneReleased(recorder')
       /\ ProcessorsDisconnected(recorder')
       /\ SessionsClosed(recorder')
       /\ recorder'.audioChunks = recorder.audioChunks]_vars

\* C23: a captured frame of n samples gives one encoded frame whose text
\* decodes to exactly 2n bytes, the n int16 values of the converted samples
\* in order, tagged with the capture rate; k frames give k encoded frames.
C23_OneEncodedFramePerFrame ==
  /\ codec.frames > 0 =>
       codec.blobs = IF codec.stage = "samples" THEN codec.frames - 1
                     ELSE codec.frames
  /\ (codec.frames > 0 /\ codec.stage # "samples") =>
       codec.mimeType = <<"audio/pcm;rate=", AUDIO_SAMPLE_RATE>>
  /\ (codec.frames > 0 /\ codec.stage \in {"bytes", "buffer"}) =>
       /\ Len(codec.bytes) = 2 * Len(codec.samples)
       /\ \A j \in 1..Len(codec.samples) :
            InputInt16(j) = ToInt16(codec.samples[j])

\* the third frame, of two samples -1.0 and just under 1.0, was encoded and
\* its text decoded to four bytes
C23_Witness ==
  /\ codec.frames = 3
  /\ codec.blobs = 3
  /\ codec.stage = "bytes"
  /\ codec.samples = <<-SampleUnit, SampleUnit - 1>>
  /\ codec.bytes = <<0, 128, 255, 127>>

\* C24: the output context does not exist before the first
\* getOutputAudioContext call, is created by a call (of the scheduler or of
\* the form), and from then on every call finds that same context: it is
\* never destroyed and never replaced.
C24_OutputContextSingleton ==
  /\ outputAudioContext = -1
  /\ [][/\ outputAudioContext # -1 => outputAudioContext' = outputAudioContext
        /\ (outputAudioContext = -1 /\ outputAudioContext' # -1) =>
             /\ outputAudioContext' = now
             /\ \/ Len(nodes') > Len(nodes)
                \/ Len(recorder'.sessions) > Len(recorder.sessions)]_vars

\* the context was created at the start; later, the scheduler enqueued a
\* buffer and the form opened a session, each through getOutputAudioContext
C24_Witness ==
  /\ outputAudioContext = 0
  /\ now > 0
  /\ \E h \in DOMAIN nodes :
       nodes[h].via = "playAudioBuffer" /\ nodes[h].enqueuedAt > 0
  /\ Len(recorder.sessions) = 1

\* a capture session is active: isRecording is true, the processor in
\* scriptProcessorRef is connected and liveSessionRef holds a session
CaptureActive(r, ref) ==
  /\ r.isRecording
  /\ r.scriptProcessorRef # 0
  /\ r.processors[r.scriptProcessorRef].connected
  /\ ref # 0

\* C25: an active capture session ends only by the user's stopRecording, a
\* session error, a form reset or the unmount of the form, never by a
\* render or an effect cleanup that startRecording's own state updates cause.
C25_ActiveUntilStopped ==
  [][(CaptureActive(recorder, liveSessionRef)
      /\ ~CaptureActive(recorder', liveSessionRef')) =>
       recorder'.handler \in {"stopRecording", "onerror", "resetForm",
                              "unmount"}]_vars

\* the video of the shared page has played to its end and was not started
\* again
PlayerEnded == \E e \in DOMAIN player.elements : player.elements[e].ended

\* C26: when the video reports its natural end the session is Ended, not
\* playing and with the residual audio stopped, and playback starts again
\* only by the 'Play Greeting' button, never by itself.
C26_EndedStaysEnded ==
  [][/\ (~PlayerEnded /\ PlayerEnded') =>
          ~player'.isPlaying /\ audioSources' = {}
     /\ (PlayerEnded /\ Len(player'.requests) > Len(player.requests)) =>
          player'.requests[Len(player'.requests)].via = "button"]_vars

\* C27: the start routine of a playback request runs at most once, whatever
\* the order in which 'canplaythrough' and the load timeout occur.
C27_StartAtMostOncePerRequest ==
  /\ \A k \in DOMAIN requests : requests[k].starts <= 1
  /\ \A k \in DOMAIN player.requests : player.requests[k].starts <= 1

\* the card has no ready-timeout pending, no video playing and no audio
\* scheduled or playing on the device
CardQuiet ==
  /\ \A k \in DOMAIN requests : requests[k].timeout # "pending"
  /\ \A e \in DOMAIN elements : ~elements[e].playing
  /\ audioSources = {}
  /\ \A h \in DOMAIN nodes : ~Audible(World, h)

\* C28: when the card is removed from the page the cleanup closes the video
\* player: the pending ready-timeout is cancelled, the video is paused and
\* the audio is stopped, so that no timer of the card remains pending and no
\* audio of the card keeps playing.
C28_UnmountClosesPlayer ==
  [][(cardMounted /\ ~cardMounted') => CardQuiet']_vars

\* the active set is empty and a buffer halted by stopAllAudio had not played
\* to its end
StoppedEarly ==
  /\ audioSources = {}
  /\ \E g \in DOMAIN nodes :
       nodes[g].halted /\ EndOf(nodes[g]) > currentTime(World)

\* C29: a buffer enqueued with playAudioBuffer when the active set is empty
\* because stopAllAudio halted the previous buffers starts at the current
\* time of the device clock: no silence as long as the remainder of the
\* stopped buffers precedes it.
C29_NoSilenceAfterStop ==
  [][(StoppedEarly /\ Len(nodes') = Len(nodes) + 1) =>
        nodes'[Len(nodes')].startAt = nodes'[Len(nodes')].enqueuedAt]_vars

\* C30: when synchronized playback starts, the audio buffer that the start
\* routine enqueues is scheduled at the time the device clock shows when the
\* routine runs, whatever standalone audio was played and stopped before.
C30_SyncAudioStartsNow ==
  [][(/\ \E k \in DOMAIN requests : requests'[k].starts > requests[k].starts
      /\ Len(nodes') > Len(nodes)) =>
        nodes'[Len(nodes) + 1].startAt = nodes'[Len(nodes) + 1].enqueuedAt]_vars

\* C31: a step in which stopAllAudio commands a handle to stop leaves the
\* cursor and the output device as they were: it changes only the handles
\* that were in the active set, by stopping them, and the active set.
C31_StopAllFrame ==
  [][(\E h \in audioSources : ~nodes[h].stopCalled /\ nodes'[h].stopCalled) =>
        /\ nextStartTime' = nextStartTime
        /\ outputAudioContext' = outputAudioContext
        /\ DOMAIN nodes' = DOMAIN nodes
        /\ \A h \in DOMAIN nodes :
             IF h \in audioSources
             THEN nodes'[h] \in {StopNode(nodes[h], TRUE),
                                 StopNode(nodes[h], FALSE)}
             ELSE nodes'[h] = nodes[h]]_vars

\* stopAllAudio halted a buffer that was playing while an earlier buffer,
\* already out of the active set, was left as it ended; the cursor is still
\* ahead of the device clock
C31_Witness ==
  /\ outputAudioContext # -1
  /\ audioSources = {}
  /\ nextStartTime > currentTime(World)
  /\ \E h \in Pab : \E g \in Pab :
       /\ nodes[h].endedFired /\ ~nodes[h].stopCalled
       /\ nodes[g].halted

\* C32: isPlayingAudio is true only while audio of the card is scheduled or
\* playing: once the standalone audio has played to its end the flag is
\* false again, with no action of the user.
C32_PlayingFlagOnlyWhileAudible ==
  isPlayingAudio => \E h \in DOMAIN nodes : Audible(World, h)

\* stopRecording has asked for the close of session s: its close() waits on
\* the connection promise, or has run
CloseRequested(s) ==
  \/ recorder.sessions[s].closed
  \/ \E i \in DOMAIN recorder.sessions[s].thens :
       recorder.sessions[s].thens[i].kind = "close"

\* no frame is handed to a session after the request to close it: the
\* reference never holds such a session, and no send waits behind a close
NoSendAfterClose ==
  /\ liveSessionRef # 0 => ~CloseRequested(liveSessionRef)
  /\ \A s \in DOMAIN recorder.sessions :
       \A i \in DOMAIN recorder.sessions[s].thens :
         \A j \in DOMAIN recorder.sessions[s].thens :
           (i < j /\ recorder.sessions[s].thens[i].kind = "close") =>
              recorder.sessions[s].thens[j].kind # "send"

\* the frames a session received are in the order of their capture, each
\* of them once
DeliveredInCaptureOrder ==
  \A s \in DOMAIN recorder.sessions :
    \A i \in DOMAIN recorder.sessions[s].sent :
      \A j \in DOMAIN recorder.sessions[s].sent :
        i < j => recorder.sessions[s].sent[i] < recorder.sessions[s].sent[j]

\* C33: the frames forwarded to the streaming session reach it in capture
\* order, and no frame is sent to a session after stopRecording asked for
\* its close.
C33_OrderedAndNoneAfterClose ==
  DeliveredInCaptureOrder /\ NoSendAfterClose

\* the chunks of the live session, in the order of their arrival
Chunks == {h \in DOMAIN nodes : nodes[h].via = "onmessage"}

\* C34: within one recording session the audio chunks received from the live
\* session are scheduled in the order of their arrival, each at the maximum
\* of the local cursor and the device clock and never before the chunk
\* before it ends, also when several handlers are in flight at once.
C34_ChunksInArrivalOrder ==
  /\ \A h \in Chunks :
       nodes[h].startAt = Max(nodes[h].cursorBefore, nodes[h].enqueuedAt)
  /\ \A i \in Chunks : \A j \in Chunks :
       i < j => nodes[j].startAt >= EndOf(nodes[i])

\* two chunks arrived together and the second one waits for the end of the
\* first; a third one arrived after the clock had passed the cursor
C34_Witness ==
  \E i \in Chunks : \E j \in Chunks : \E k \in Chunks :
    /\ i < j /\ j < k
    /\ nodes[i].enqueuedAt = nodes[j].enqueuedAt
    /\ nodes[j].startAt = EndOf(nodes[i])
    /\ nodes[k].enqueuedAt > nodes[k].cursorBefore
    /\ nodes[k].startAt = nodes[k].enqueuedAt

\* ------------------------------------------------- GreetingForm: generation
\* 'isGenerating' of GreetingForm
isGenerating(f) == f.loadingAudio \/ f.loadingVideo

\* the characters a message is made of: a blank and a letter
Chars == {" ", "a"}

\* the messages the user can have typed
Messages == UNION {[1..n -> Chars] : n \in 0..MaxMessage}

\* String.prototype.trim, the leading part
RECURSIVE trimStart(_)
trimStart(m) ==
  IF m # <<>> /\ Head(m) = " " THEN trimStart(Tail(m)) ELSE m

\* String.prototype.trim, the trailing part
RECURSIVE trimEnd(_)
trimEnd(m) ==
  IF m # <<>> /\ m[Len(m)] = " " THEN trimEnd(SubSeq(m, 1, Len(m) - 1))
  ELSE m

\* 'message' tested without trim()
trimNone(m) == m

\* message.trim()
trim(m) == trimEnd(trimStart(m))

\* a handler other than the settling of a delete ran last
NoDelete == [op |-> "", id |-> 0, ok |-> TRUE]

\* the handler op of App or of the form ran: a settled delete is recorded
\* with its id and its outcome
Did(w, op, id, ok) ==
  [w EXCEPT !.app.last = IF op = "deleteGreeting"
                         THEN [op |-> op, id |-> id, ok |-> ok]
                         ELSE NoDelete]

\* resetForm as created by a render that saw the given audioStream.
\* mediaRecorderRef is never assigned, so its branch is not taken.
resetForm(w, throwing, audioStream) ==
  LET w1 == [w EXCEPT !.app.form.message = <<>>,
                      !.app.form.imageFile = FALSE,
                      !.recorder.isRecording = FALSE,
                      !.recorder.audioChunks = <<>>,
                      !.recorder.error = FALSE,
                      !.app.form.error = "",
                      !.app.form.videoGenerationMessage = ""]
      w2 == stopAllAudio(w1, throwing)
      w3 == IF audioStream # 0
            THEN [w2 EXCEPT !.recorder.streams[audioStream] = FALSE,
                            !.recorder.audioStream = 0]
            ELSE w2
  IN IF w3.liveSessionRef # 0
     THEN [then(w3, w3.liveSessionRef, CloseSession) EXCEPT
             !.liveSessionRef = 0]
     ELSE w3

\* a call of generateGreeting: the message, image and resetForm of the render
\* it was created by, the services it has called, the steps that have
\* succeeded, and how it ended ("" while it runs)
NewRun(w) ==
  [pc |-> "start", message |-> w.app.form.message,
   imageFile |-> w.app.form.imageFile,
   audioStream |-> w.recorder.rendered.audioStream,
   uploadedImageUrl |-> FALSE, polls |-> 0, calls |-> <<>>,
   succeeded |-> <<>>, outcome |-> ""]

\* run k calls the given service and waits for it at pc
Await(w, k, pc, service) ==
  [w EXCEPT !.app.form.runs[k].pc = pc,
            !.app.form.runs[k].calls = Append(@, service)]

\* the 'finally' block of generateGreeting that leaves the progress message
generateFinallyKeepsMessage(w, k, outcome) ==
  [w EXCEPT !.app.form.loadingAudio = FALSE,
            !.app.form.loadingVideo = FALSE,
            !.app.form.runs[k].pc = "done",
            !.app.form.runs[k].outcome = outcome]

\* the 'finally' block of generateGreeting, which ends run k
generateFinally(w, k, outcome) ==
  [w EXCEPT !.app.form.loadingAudio = FALSE,
            !.app.form.loadingVideo = FALSE,
            !.app.form.videoGenerationMessage = "",
            !.app.form.runs[k].pc = "done",
            !.app.form.runs[k].outcome = outcome]

\* what a service's failure says: the message of its error has or has not
\* the text "Requested entity was not found."
Failures == {"error", "notFound"}

\* the 'catch' block of generateGreeting for run k, then its 'finally'.
\* onApiKeyPrompt, not awaited, calls window.aistudio.
generateCatch(w, k, e) ==
  LET w1 == [w EXCEPT !.app.form.error = "failed", !.recorder.error = TRUE]
      w2 == IF e = "notFound"
            THEN [w1 EXCEPT !.app.form.runs[k].calls =
                                Append(@, "hasSelectedApiKey")]
            ELSE w1
  IN generateFinally(w2, k, "failed")

\* generateGreeting up to its first await, as run k: aiThrows is TRUE when
\* getGenAIInstance() throws
generateGreeting(w, throwing, aiThrows) ==
  LET k == Len(w.app.form.runs) + 1
      w1 == [w EXCEPT !.app.form.error = "", !.recorder.error = FALSE,
                      !.app.form.runs = Append(@, NewRun(w))]
      w2 == stopAllAudio(w1, throwing)
      run == w2.app.form.runs[k]
  IN IF trim(run.message) = <<>>
     THEN [w2 EXCEPT !.app.form.error = "validation",
                     !.recorder.error = TRUE,
                     !.app.form.runs[k].pc = "done",
                     !.app.form.runs[k].outcome = "invalid"]
     ELSE LET w3 == [w2 EXCEPT !.app.form.loadingAudio = TRUE,
                               !.app.form.loadingVideo = TRUE]
          IN IF aiThrows THEN generateCatch(w3, k, "error")
             ELSE IF run.imageFile
             THEN Await([w3 EXCEPT !.app.form.videoGenerationMessage =
                                       "Uploading image"],
                        k, "uploadImage", "uploadImage")
             ELSE Await([w3 EXCEPT !.app.form.videoGenerationMessage =
                                       "Generating audio"],
                        k, "generateContent", "generateContent")

\* run k after 'await firebaseService.uploadImage'
uploadImageSettled(w, k, r) ==
  IF r \in Failures THEN generateCatch(w, k, r)
  ELSE Await([w EXCEPT !.app.form.runs[k].uploadedImageUrl = TRUE,
                       !.app.form.runs[k].succeeded = Append(@, "upload"),
                       !.app.form.videoGenerationMessage =
                           "Generating audio"],
             k, "generateContent", "generateContent")

\* run k after 'await ai.models.generateContent': r is "audio" when the
\* response has audio data and "none" when it has not
generateContentSettled(w, k, r) ==
  IF r \in Failures THEN generateCatch(w, k, r)
  ELSE IF r = "none" THEN generateCatch(w, k, "error")
  ELSE Await([w EXCEPT !.app.form.runs[k].succeeded = Append(@, "audio"),
                       !.app.form.loadingAudio = FALSE,
                       !.app.form.videoGenerationMessage =
                           "Audio generated"],
             k, "onApiKeyPrompt", "hasSelectedApiKey")

\* run k after 'await onApiKeyPrompt()', which is checkAndPromptApiKey of App
onApiKeyPromptSettled(w, k, r) ==
  IF r \in Failures THEN generateCatch(w, k, r)
  ELSE IF w.app.form.runs[k].uploadedImageUrl
  THEN Await(w, k, "fetch", "fetch")
  ELSE Await(w, k, "generateVideos", "generateVideos")

\* run k after 'await fetch(uploadedImageUrl)...'
fetchSettled(w, k, r) ==
  IF r \in Failures THEN generateCatch(w, k, r)
  ELSE Await(w, k, "generateVideos", "generateVideos")

\* run k with an operation that is done, saving although it has no video
operationDoneNoCheck(w, k, r) ==
  Await([w EXCEPT !.app.form.runs[k].succeeded =
                      IF r = "video" THEN Append(@, "video") ELSE @,
                  !.app.form.videoGenerationMessage = "",
                  !.app.form.loadingVideo = FALSE],
        k, "addGreeting", "addGreeting")

\* run k with an operation that is done: r is "video" when the response has
\* a download link and "none" when it has not
operationDone(w, k, r) ==
  IF r = "none" THEN generateCatch(w, k, "error")
  ELSE Await([w EXCEPT !.app.form.runs[k].succeeded = Append(@, "video"),
                       !.app.form.videoGenerationMessage = "",
                       !.app.form.loadingVideo = FALSE],
             k, "addGreeting", "addGreeting")

\* run k after 'await ai.models.generateVideos' or 'await
\* ai.operations.getVideosOperation': r is "running" while the operation is
\* not done
operationSettled(w, k, r) ==
  IF r \in Failures THEN generateCatch(w, k, r)
  ELSE IF r = "running"
  THEN [w EXCEPT !.app.form.videoGenerationMessage = "Generating video",
                 !.app.form.runs[k].pc = "setTimeout",
                 !.app.form.runs[k].polls = @ + 1]
  ELSE operationDone(w, k, r)

\* the 10 s timer of run k's polling loop fires
pollTimer(w, k) == Await(w, k, "getVideosOperation", "getVideosOperation")

\* ------------------------------------------------------- App and the store
\* a greeting document: createdAt is the time of the store's clock at which
\* it was written, run the generateGreeting call that wrote it (0: it was
\* in the store when the page loaded)
Doc(id, createdAt, run) == [id |-> id, createdAt |-> createdAt, run |-> run]

\* the store with n documents written before the page loaded
StoreOf(n) == {Doc(i, i, 0) : i \in 1..n}

\* firebaseService.getGreetings: the documents, newest first
RECURSIVE getGreetings(_)
getGreetings(docs) ==
  IF docs = {} THEN <<>>
  ELSE LET newest == CHOOSE g \in docs :
                       \A h \in docs : h.createdAt <= g.createdAt
       IN <<newest>> \o getGreetings(docs \ {newest})

\* handleGreetingCreated of App, the form's onGreetingCreated
handleGreetingCreated(w, newGreeting) ==
  [w EXCEPT !.app.greetings = Append(@, newGreeting),
            !.app.created = Append(@, newGreeting)]

\* firebaseService.addGreeting for run k: the store writes the document and
\* the greeting is returned
addGreeting(w, k) ==
  [w EXCEPT !.app.clock = @ + 1,
            !.app.store = @ \cup {Doc(w.app.clock + 1, w.app.clock + 1, k)}]

\* run k after 'await firebaseService.addGreeting'
addGreetingSettled(w, k, r, throwing) ==
  IF r \in Failures THEN generateCatch(w, k, r)
  ELSE LET w1 == addGreeting(w, k)
           savedGreeting == Doc(w1.app.clock, w1.app.clock, k)
           w2 == handleGreetingCreated(w1, savedGreeting)
           w3 == resetForm(w2, throwing, w.app.form.runs[k].audioStream)
       IN generateFinally(w3, k, "saved")

\* fetchGreetings of App up to its await
fetchGreetings(w) ==
  [w EXCEPT !.app.loading = TRUE,
            !.app.fetches = Append(@, [state |-> "sent", docs |-> {}])]

\* the effect of App that fetches the list, run by a render that saw the
\* given sharedGreetingId
fetchEffect(w, sharedGreetingId) ==
  IF sharedGreetingId = 0 THEN fetchGreetings(w) ELSE w

\* App mounts: its effects run in the order of their declaration, all
\* created by the first render, whose sharedGreetingId is null; the state
\* the second effect set is rendered next, and the effects whose
\* dependencies changed run again
mount(w) ==
  LET w1 == [w EXCEPT !.app.mounted = TRUE]
      w2 == fetchEffect(w1, w1.app.sharedGreetingId)
      w4 == [w2 EXCEPT !.app.sharedGreetingId = w.app.url]
  IN IF w4.app.sharedGreetingId # w.app.sharedGreetingId
     THEN fetchEffect(w4, w4.app.sharedGreetingId)
     ELSE w4

\* fetchGreetings call i after 'await firebaseService.getGreetings()'
fetchGreetingsSettled(w, i, ok) ==
  LET w1 == IF ok
            THEN [w EXCEPT !.app.greetings = getGreetings(w.app.fetches[i].docs)]
            ELSE w
  IN [w1 EXCEPT !.app.loading = FALSE, !.app.fetches[i].state = "done"]

\* the sequence s without its j-th element
RemoveAt(s, j) == SubSeq(s, 1, j - 1) \o SubSeq(s, j + 1, Len(s))

\* handleDeleteGreeting of App up to its await
handleDeleteGreeting(w, id) == [w EXCEPT !.app.deleting = Append(@, id)]

\* handleDeleteGreeting after its await, removing the greeting although the
\* delete failed
handleDeleteGreetingSettledAlways(w, j, ok) ==
  LET id == w.app.deleting[j]
      w1 == IF ok THEN [w EXCEPT !.app.store = {g \in @ : g.id # id}] ELSE w
  IN [w1 EXCEPT !.app.greetings = SelectSeq(@, LAMBDA g : g.id # id),
                !.app.deleting = RemoveAt(@, j)]

\* the j-th handleDeleteGreeting call in flight after 'await
\* firebaseService.deleteGreeting': when the store deleted the document the
\* greeting leaves the list
handleDeleteGreetingSettled(w, j, ok) ==
  LET id == w.app.deleting[j]
  IN IF ok
     THEN [w EXCEPT !.app.store = {g \in @ : g.id # id},
                    !.app.greetings = SelectSeq(@, LAMBDA g : g.id # id),
                    !.app.deleting = RemoveAt(@, j)]
     ELSE [w EXCEPT !.app.deleting = RemoveAt(@, j)]

\* the page opens with or without a greetingId in its URL and with some
\* greetings in the store
InitApp ==
  /\ InitState
  /\ audioUrl = "pcm16"
  /\ codec = CodecIdle
  /\ \E url \in {0, 1}, n \in 0..MaxStore : app = AppStart(url, StoreOf(n))

\* App mounts and its effects run
AppMount ==
  /\ ~app.mounted
  /\ Set(Did(mount(World), "mount", 0, TRUE))
  /\ UNCHANGED now

\* the store answers the query of getGreetings call i
GetGreetingsRead(i) ==
  /\ app.fetches[i].state = "sent"
  /\ Set(Did([World EXCEPT !.app.fetches[i] =
                               [state |-> "read", docs |-> app.store]],
             "getDocs", i, TRUE))
  /\ UNCHANGED now

\* getGreetings call i settles; it fulfils only with the store's answer
FetchGreetingsSettled(i, ok) ==
  /\ app.fetches[i].state \in IF ok THEN {"read"} ELSE {"sent", "read"}
  /\ Set(Did(fetchGreetingsSettled(World, i, ok), "fetchGreetings", i, ok))
  /\ UNCHANGED now

\* App renders the form
FormShown == app.mounted /\ app.sharedGreetingId = 0

\* the user types in the textarea
EditMessage(m) ==
  /\ FormShown
  /\ ~isGenerating(app.form)
  /\ ~recorder.rendered.isRecording
  /\ m # app.form.message
  /\ Set(Did([World EXCEPT !.app.form.message = m], "setMessage", 0, TRUE))
  /\ UNCHANGED now

\* the user chooses an image or clears the choice
ImageChange(file) ==
  /\ FormShown
  /\ ~isGenerating(app.form)
  /\ file # app.form.imageFile
  /\ Set(Did([World EXCEPT !.app.form.imageFile = file],
             "handleImageChange", 0, TRUE))
  /\ UNCHANGED now

\* the user clicks 'Generate Greeting', which 'disabled' blocks while the
\* message is empty.  What 'loading' does to a click is Button's affair, so
\* a click while a run is generating is not excluded.
GenerateGreeting(throwing, aiThrows) ==
  /\ FormShown
  /\ Len(app.form.message) # 0
  /\ Len(app.form.runs) < MaxRuns
  /\ Set(Did(generateGreeting(World, throwing, aiThrows), "generateGreeting",
             Len(app.form.runs) + 1, TRUE))
  /\ UNCHANGED now

\* the user clicks 'Refresh/Restart'
ResetForm(throwing) ==
  /\ FormShown
  /\ ~isGenerating(app.form)
  /\ Set(Did(resetForm(World, throwing, recorder.rendered.audioStream),
             "resetForm", 0, TRUE))
  /\ UNCHANGED now

\* what a service answers: a result or a failure
Settled(results) == results \cup Failures

\* run k waits at pc
At(k, pc) == app.form.runs[k].pc = pc

UploadImageSettled(k, r) ==
  /\ At(k, "uploadImage")
  /\ Set(Did(uploadImageSettled(World, k, r), "uploadImage", k, r = "url"))
  /\ UNCHANGED now

GenerateContentSettled(k, r) ==
  /\ At(k, "generateContent")
  /\ Set(Did(generateContentSettled(World, k, r), "generateContent", k,
             r = "audio"))
  /\ UNCHANGED now

OnApiKeyPromptSettled(k, r) ==
  /\ At(k, "onApiKeyPrompt")
  /\ Set(Did(onApiKeyPromptSettled(World, k, r), "onApiKeyPrompt", k,
             r \notin Failures))
  /\ UNCHANGED now

FetchSettled(k, r) ==
  /\ At(k, "fetch")
  /\ Set(Did(fetchSettled(World, k, r), "fetch", k, r = "blob"))
  /\ UNCHANGED now

\* generateVideos or getVideosOperation answers run k
OperationSettled(k, r) ==
  /\ At(k, "generateVideos") \/ At(k, "getVideosOperation")
  /\ r = "running" => app.form.runs[k].polls < MaxPolls
  /\ Set(Did(operationSettled(World, k, r), "operation", k, r = "video"))
  /\ UNCHANGED now

PollTimer(k) ==
  /\ At(k, "setTimeout")
  /\ Set(Did(pollTimer(World, k), "setTimeout", k, TRUE))
  /\ UNCHANGED now

AddGreetingSettled(k, r, throwing) ==
  /\ At(k, "addGreeting")
  /\ Set(Did(addGreetingSettled(World, k, r, throwing), "addGreeting", k,
             r = "doc"))
  /\ UNCHANGED now

\* the user clicks 'Delete' on the card of greeting id, which App renders
\* in the list when the list is loaded
DeleteGreeting(id) ==
  /\ FormShown
  /\ ~app.loading
  /\ \E j \in DOMAIN app.greetings : app.greetings[j].id = id
  /\ Len(app.deleting) < MaxDeletes
  /\ Set(Did(handleDeleteGreeting(World, id), "handleDeleteGreeting", id, TRUE))
  /\ UNCHANGED now

\* the store answers the j-th delete in flight
DeleteGreetingSettled(j, ok) ==
  /\ j \in DOMAIN app.deleting
  /\ Set(Did(handleDeleteGreetingSettled(World, j, ok), "deleteGreeting",
             app.deleting[j], ok))
  /\ UNCHANGED now

\* the runs of generateGreeting in flight
Runs == DOMAIN app.form.runs

\* the page opens without a greetingId in its URL, on an empty store
InitGenerate ==
  /\ InitState
  /\ audioUrl = "pcm16"
  /\ codec = CodecIdle
  /\ app = AppStart(0, {})

\* the form of the main page under every answer of the services
NextGenerate ==
  \/ AppMount
  \/ \E i \in DOMAIN app.fetches : GetGreetingsRead(i)
  \/ \E i \in DOMAIN app.fetches, ok \in BOOLEAN : FetchGreetingsSettled(i, ok)
  \/ \E m \in Messages : EditMessage(m)
  \/ \E file \in BOOLEAN : ImageChange(file)
  \/ \E throwing \in SUBSET MayThrow(World), aiThrows \in BOOLEAN :
       GenerateGreeting(throwing, aiThrows)
  \/ \E throwing \in SUBSET MayThrow(World) : ResetForm(throwing)
  \/ \E k \in Runs, r \in Settled({"url"}) : UploadImageSettled(k, r)
  \/ \E k \in Runs, r \in Settled({"audio", "none"}) :
       GenerateContentSettled(k, r)
  \/ \E k \in Runs, r \in Settled({"resolved"}) : OnApiKeyPromptSettled(k, r)
  \/ \E k \in Runs, r \in Settled({"blob"}) : FetchSettled(k, r)
  \/ \E k \in Runs, r \in Settled({"video", "none", "running"}) :
       OperationSettled(k, r)
  \/ \E k \in Runs : PollTimer(k)
  \/ \E k \in Runs, r \in Settled({"doc"}),
        throwing \in SUBSET MayThrow(World) :
       AddGreetingSettled(k, r, throwing)

SpecGenerate == InitGenerate /\ [][NextGenerate]_vars

\* the app and the store: greetings are fetched, created by runs of
\* generateGreeting without an image whose services all succeed, and deleted
NextApp ==
  \/ AppMount
  \/ \E i \in DOMAIN app.fetches : GetGreetingsRead(i)
  \/ \E i \in DOMAIN app.fetches, ok \in BOOLEAN : FetchGreetingsSettled(i, ok)
  \/ EditMessage(<<"a">>)
  \/ GenerateGreeting({}, FALSE)
  \/ \E k \in Runs : GenerateContentSettled(k, "audio")
  \/ \E k \in Runs : OnApiKeyPromptSettled(k, "resolved")
  \/ \E k \in Runs : OperationSettled(k, "video")
  \/ \E k \in Runs : AddGreetingSettled(k, "doc", {})
  \/ \E id \in 1..(MaxStore + MaxRuns) : DeleteGreeting(id)
  \/ \E j \in 1..MaxDeletes, ok \in BOOLEAN : DeleteGreetingSettled(j, ok)

SpecApp == InitApp /\ [][NextApp]_vars

\* the steps that have succeeded when a run saves: the upload when the run
\* has an image, the audio, the video
StepsBeforeSave(run) ==
  IF run.imageFile THEN <<"upload", "audio", "video">>
  ELSE <<"audio", "video">>

\* the greetings saved or handed to onGreetingCreated by run k
SavedBy(k) ==
  {g \in app.store : g.run = k}
    \cup {app.created[i] : i \in {j \in DOMAIN app.created :
                                    app.created[j].run = k}}

\* run k ends by a failure in this step
RunFails(k) ==
  /\ k \in DOMAIN app'.form.runs
  /\ app'.form.runs[k].outcome = "failed"
  /\ k \in DOMAIN app.form.runs => app.form.runs[k].outcome = ""

\* C35: a greeting is saved, and onGreetingCreated called with it, only by a
\* run whose upload (when it has an image), audio synthesis and video
\* generation have succeeded, in that order; a run that fails at any step
\* saves nothing and calls nothing, and the step in which it fails sets the
\* error and leaves the message, the image, the store and the list as they
\* were.
C35_SavedOnlyAfterAllSteps ==
  /\ [](\A k \in DOMAIN app.form.runs :
          LET run == app.form.runs[k]
          IN /\ SavedBy(k) # {} =>
                  /\ run.succeeded = StepsBeforeSave(run)
                  /\ run.pc = "done" /\ run.outcome = "saved"
                  /\ SavedBy(k) \subseteq app.store
             /\ run.outcome = "failed" => SavedBy(k) = {})
  /\ [][\A k \in 1..MaxRuns :
          RunFails(k) =>
            /\ app'.form.error = "failed"
            /\ app'.form.message = app.form.message
            /\ app'.form.imageFile = app.form.imageFile
            /\ app'.store = app.store
            /\ app'.created = app.created
            /\ app'.greetings = app.greetings]_vars

\* one run with an image has saved its greeting and another run has failed
\* while the video was generated
C35_Witness ==
  \E k, j \in DOMAIN app.form.runs :
    /\ app.form.runs[k].outcome = "saved"
    /\ app.form.runs[k].imageFile
    /\ SavedBy(k) # {}
    /\ app.form.runs[j].outcome = "failed"
    /\ app.form.runs[j].succeeded = <<"audio">>

\* the message m is empty or has only white space
Blank(m) == \A i \in DOMAIN m : m[i] = " "

\* generateGreeting is called in this step, as run k
Called(k) == Len(app.form.runs) = k - 1 /\ Len(app'.form.runs) = k

\* C36: a call of generateGreeting with an empty or white-space message sets
\* the validation error and returns at once: it calls no service, leaves
\* loadingAudio and loadingVideo as they were and saves no greeting, in that
\* step and ever after.
C36_BlankMessageRejected ==
  /\ [][\A k \in 1..MaxRuns :
          (Called(k) /\ Blank(app.form.message)) =>
            /\ app'.form.error = "validation"
            /\ app'.form.runs[k].pc = "done"
            /\ app'.form.runs[k].calls = <<>>
            /\ app'.form.loadingAudio = app.form.loadingAudio
            /\ app'.form.loadingVideo = app.form.loadingVideo
            /\ app'.store = app.store
            /\ app'.created = app.created]_vars
  /\ [](\A k \in DOMAIN app.form.runs :
          Blank(app.form.runs[k].message) =>
            /\ app.form.runs[k].calls = <<>>
            /\ SavedBy(k) = {})

\* generateGreeting was called with a white-space message and returned with
\* the validation error, while an earlier call awaits addGreeting
C36_Witness ==
  \E k, j \in DOMAIN app.form.runs :
    /\ app.form.runs[k].message = <<" ">>
    /\ app.form.runs[k].pc = "done"
    /\ app.form.error = "validation"
    /\ app.form.runs[j].pc = "addGreeting"

\* run k of generateGreeting, which passed the validation and entered the
\* try block, ends in this step
RunEnds(k) ==
  /\ k \in DOMAIN app'.form.runs
  /\ app'.form.runs[k].outcome \in {"saved", "failed"}
  /\ k \in DOMAIN app.form.runs => app.form.runs[k].pc # "done"

\* the form is idle: it is not generating and shows no progress message
FormIdleAgain ==
  /\ ~app.form.loadingAudio
  /\ ~app.form.loadingVideo
  /\ app.form.videoGenerationMessage = ""

\* C37: the step in which a generateGreeting run ends, saved or failed at
\* any step of its try block, leaves loadingAudio and loadingVideo false and
\* the progress message cleared; and whenever no run is in flight the form
\* is idle, and the form that is shown can be reset.
C37_RunEndLeavesFormIdle ==
  /\ [][\A k \in 1..MaxRuns : RunEnds(k) => FormIdleAgain']_vars
  /\ [](( \A k \in DOMAIN app.form.runs : app.form.runs[k].pc = "done")
          => FormIdleAgain /\ (FormShown => ENABLED ResetForm({})))

\* runs have ended in each way: one saved its greeting after the video was
\* polled while running, one failed with the key error after the audio was
\* generated
C37_Witness ==
  /\ FormIdleAgain
  /\ app.mounted
  /\ \E k, j \in DOMAIN app.form.runs :
       /\ app.form.runs[k].outcome = "saved"
       /\ app.form.runs[k].polls > 0
       /\ app.form.runs[j].outcome = "failed"
       /\ app.form.runs[j].succeeded = <<"audio">>
       /\ app.form.runs[j].calls[Len(app.form.runs[j].calls)]
            = "hasSelectedApiKey"
       /\ app.form.runs[j].pc = "done"

\* C38: when the URL of the page carries a greetingId, getGreetings is never
\* called, the mount of App included.
C38_NoFetchOnSharedPage == app.url # 0 => app.fetches = <<>>

\* C39: the list of greetings App holds is ordered by creation time, newest
\* first: a greeting is never behind an older one.
C39_ListNewestFirst ==
  \A i, j \in DOMAIN app.greetings :
    i < j => app.greetings[i].createdAt >= app.greetings[j].createdAt

\* the list l without the greetings whose id is id, the others in their order
RECURSIVE Without(_, _)
Without(l, id) ==
  IF l = <<>> THEN <<>>
  ELSE IF Head(l).id = id THEN Without(Tail(l), id)
  ELSE <<Head(l)>> \o Without(Tail(l), id)

\* C40: when the store's delete of a greeting succeeds, the list loses the
\* greeting with that id and nothing else, the others keeping their order;
\* when it fails the list is unchanged; and the click on Delete alone does
\* not change the list.
C40_DeleteRemovesExactlyOne ==
  [][/\ app'.last.op = "deleteGreeting" =>
          app'.greetings = IF app'.last.ok
                           THEN Without(app.greetings, app'.last.id)
                           ELSE app.greetings
     /\ Len(app'.deleting) > Len(app.deleting) =>
          app'.greetings = app.greetings]_vars

\* the store has deleted a greeting that stood between two others, and the
\* two are left in the list
C40_Witness ==
  /\ app.last.op = "deleteGreeting"
  /\ app.last.ok
  /\ \A g \in app.store : g.id # app.last.id
  /\ \E i, j \in DOMAIN app.greetings :
       /\ i < j
       /\ app.greetings[i].createdAt > app.last.id
       /\ app.greetings[j].createdAt < app.last.id

====
